---- MODULE Spec2Model ----
(***************************************************************************)
(* A model of the reactive tabular data engine of owid-grapher:            *)
(*   - AbstractTable / OwidTable (row store, column registry, filters),    *)
(*   - OwidTable.fromLegacy (join of per-variable series),                 *)
(*   - ChartConfig (persisted configuration, the variableIds reaction,     *)
(*     the minPopulationFilter reaction, downloadData / receiveData),      *)
(*   - ChartData (isReady, filledDimensions, key index, selection).        *)
(***************************************************************************)
EXTENDS Integers, Sequences, FiniteSets, TLC

(***************************************************************************)
(* Bounds of the model.                                                    *)
(***************************************************************************)
\* longest persisted selection list a configuration is loaded with
MaxSel == 2
\* longest key list assigned to selectedKeys
MaxKeys == 2
\* number of invocations of downloadData that are followed
MaxFetch == 3
\* most rows of a table that rows are appended to
MaxRows == 4
\* largest dimension index a key is made for
MaxIndex == 11
\* the longest sequence that is smoothed
MaxNumbers == 4
\* the largest window of a rolling average
MaxWindow == 3

(***************************************************************************)
(* Generic helpers.                                                        *)
(***************************************************************************)
Range(s) == {s[i] : i \in 1..Len(s)}

SeqsUpTo(S, n) == UNION {[1..k -> S] : k \in 0..n}

Min(S) == CHOOSE x \in S : \A y \in S : x <= y

\* the function f as an explicit value: every element is evaluated once
Eager(f) == f @@ <<>>

RECURSIVE SortedSeq(_)
\* the elements of a finite set of integers in ascending order
SortedSeq(S) == IF S = {} THEN <<>> ELSE <<Min(S)>> \o SortedSeq(S \ {Min(S)})

RECURSIVE SelectSeqIdx(_, _, _)
\* the indices i (ascending) of s with Test(i)
SelectSeqIdx(s, Test(_), i) ==
    IF i > Len(s) THEN <<>>
    ELSE (IF Test(i) THEN <<i>> ELSE <<>>) \o SelectSeqIdx(s, Test, i + 1)

\* the elements of s at the positions idx, in the order of idx
ElementsAt(s, idx) == Eager([k \in 1..Len(idx) |-> s[idx[k]]])

\* lodash uniq: first occurrences, in order
Uniq(s) ==
    LET keep(i) == \A j \in 1..(i - 1) : s[j] # s[i]
        idx == SelectSeqIdx(s, keep, 1)
    IN Eager([k \in 1..Len(idx) |-> s[idx[k]]])

(***************************************************************************)
(* Rows.  A row is a function from field names to values; a field that is  *)
(* absent from the domain reads as undefined.                              *)
(***************************************************************************)
Has(row, f) == f \in DOMAIN row

\* row[f] = v
SetField(row, f, v) == (f :> v) @@ row

\* delete row[f]
DeleteField(row, f) == [g \in (DOMAIN row) \ {f} |-> row[g]]

\* Object.assign({}, a, b): the fields of b win
Assign(a, b) == b @@ a

(***************************************************************************)
(* The data a chart can be given.                                          *)
(***************************************************************************)
\* json.entityKey: entity id -> {name, code}
EntityKey ==
    (1 :> [name |-> "A", code |-> "AA"]) @@
    (2 :> [name |-> "B", code |-> "BB"]) @@
    (3 :> [name |-> "C", code |-> "CC"])

EntityIds == DOMAIN EntityKey

EntityNames == {EntityKey[i].name : i \in EntityIds}

\* the variables of the data source
VarIds == {2, 4, 5, 7, 8, 9, 10}

\* EPOCH_DATE (settings), as a day number; an ISO date string is modelled by
\* the number of its day
EpochDate == 100

\* json.variables[id]; slugName is slugify(name); yearIsDay and zeroDay are
\* display.yearIsDay and display.zeroDay; annotations is
\* display.entityAnnotationsMap, one <<entity, note>> per line (<<>> when the
\* variable has none)
OwidVariables ==
    (2 :> [id |-> 2, name |-> "Pop", slugName |-> "pop", yearIsDay |-> FALSE,
           zeroDay |-> {},
           entities |-> <<2, 3>>, years |-> <<2000, 2001>>,
           values |-> <<7, 8>>, annotations |-> <<>>]) @@
    (4 :> [id |-> 4, name |-> "Tax", slugName |-> "tax", yearIsDay |-> FALSE,
           zeroDay |-> {EpochDate + 10},
           entities |-> <<1, 3>>, years |-> <<2000, 2001>>,
           values |-> <<40, 41>>, annotations |-> << <<"A", "estimate">> >>]) @@
    (5 :> [id |-> 5, name |-> "GDP", slugName |-> "gdp", yearIsDay |-> FALSE,
           zeroDay |-> {},
           entities |-> <<1, 2, 2>>, years |-> <<2000, 2000, 2001>>,
           values |-> <<10, 20, 21>>, annotations |-> <<>>]) @@
    (7 :> [id |-> 7, name |-> "Cases", slugName |-> "cases", yearIsDay |-> TRUE,
           zeroDay |-> {},
           entities |-> <<1, 2>>, years |-> <<13, 14>>,
           values |-> <<70, 71>>, annotations |-> <<>>]) @@
    (8 :> [id |-> 8, name |-> "Tests", slugName |-> "tests", yearIsDay |-> TRUE,
           zeroDay |-> {EpochDate + 10},
           entities |-> <<1, 2, 3>>, years |-> <<3, 3, 5>>,
           values |-> <<80, 81, 82>>, annotations |-> << <<"B", "provisional">> >>]) @@
    (9 :> [id |-> 9, name |-> "Deaths", slugName |-> "deaths", yearIsDay |-> TRUE,
           zeroDay |-> {EpochDate - 5},
           entities |-> <<1, 2>>, years |-> <<18, 9>>,
           values |-> <<90, 91>>, annotations |-> <<>>]) @@
    (10 :> [id |-> 10, name |-> "Beds", slugName |-> "beds", yearIsDay |-> TRUE,
            zeroDay |-> {EpochDate},
            entities |-> <<2>>, years |-> <<14>>,
            values |-> <<100>>, annotations |-> <<>>])

\* PopulationMap.ts: entity name -> population; C has no known population
PopulationMap == ("A" :> 3) @@ ("B" :> 10)

(***************************************************************************)
(* Optional values: {} is undefined, {x} is the value x.                   *)
(***************************************************************************)
None == {}

Some(x) == {x}

\* opt ?? d
OrElse(opt, d) == IF opt = {} THEN d ELSE CHOOSE x \in opt : TRUE

(***************************************************************************)
(* ColumnSpec and the column registry (an insertion-ordered Map keyed by   *)
(* slug, modelled as a sequence of specs with distinct slugs).             *)
(***************************************************************************)
\* a RowToValueMapper is named by its kind and its captured number
NoFn == [kind |-> "none", n |-> 0]

ColumnSpec(slug) ==
    [slug |-> slug, name |-> None, owidVariableId |-> None,
     isDailyMeasurement |-> FALSE, isFilterColumn |-> FALSE,
     annotationsColumnSlug |-> None, fn |-> NoFn]

\* AbstractColumn.name
ColumnName(spec) == OrElse(spec.name, spec.slug)

\* Map.has
ColumnsHas(cols, slug) == \E i \in 1..Len(cols) : cols[i].slug = slug

\* Map.set: an existing key keeps its position
ColumnsSet(cols, spec) ==
    IF ColumnsHas(cols, spec.slug)
    THEN Eager([i \in 1..Len(cols) |-> IF cols[i].slug = spec.slug THEN spec ELSE cols[i]])
    ELSE Append(cols, spec)

\* Map.get, for a slug the map has
ColumnsGet(cols, slug) == cols[CHOOSE i \in 1..Len(cols) : cols[i].slug = slug]

RECURSIVE ColumnsSetAll(_, _)
ColumnsSetAll(cols, specs) ==
    IF specs = <<>> THEN cols
    ELSE ColumnsSetAll(ColumnsSet(cols, Head(specs)), Tail(specs))

(***************************************************************************)
(* The functions a computed or filter column is registered with.           *)
(***************************************************************************)
\* the predicate of updatePopulationFilter: !pop || pop >= minPop
PopulationFilterFn(minPop) == [kind |-> "pop", n |-> minPop]

\* fn(row)
ApplyFn(fn, row) ==
    CASE fn.kind = "pop" ->
            LET name == row["entityName"]
            IN  (name \notin DOMAIN PopulationMap) \/ PopulationMap[name] >= fn.n
      [] fn.kind = "yearGE" -> Has(row, "year") /\ row["year"] >= fn.n
      [] fn.kind = "idLE" -> row["entityId"] <= fn.n
      [] OTHER -> FALSE

(***************************************************************************)
(* AbstractTable.                                                          *)
(***************************************************************************)
\* the order in which Object.keys lists the fields of a row
FieldOrder ==
    <<"year", "day", "2-pop", "5-gdp", "entityName", "entityId", "entityCode",
      "pop_filter", "f1", "f2", "7-cases", "c1", "cases_avg">>

\* AbstractTable.makeSpecsFromRows: one spec per field name found
MakeSpecsFromRows(rows) ==
    LET found(i) == \E r \in 1..Len(rows) : Has(rows[r], FieldOrder[i])
        idx == SelectSeqIdx(FieldOrder, found, 1)
    IN Eager([k \in 1..Len(idx) |-> ColumnSpec(FieldOrder[idx[k]])])

\* AbstractTable.detectAndAddColumnsFromRows: makeSpecsFromRows(this.rows),
\* existing columns are not overwritten
DetectAndAddColumnsFromRows(t) ==
    LET specs == MakeSpecsFromRows(t.rows)
        fresh(i) == ~ColumnsHas(t.columns, specs[i].slug)
        idx == SelectSeqIdx(specs, fresh, 1)
    IN [t EXCEPT !.columns = t.columns \o [k \in 1..Len(idx) |-> specs[idx[k]]]]

\* new OwidTable(rows, columnSpecs)
NewTable(rows, columnSpecs) == [rows |-> rows, columns |-> columnSpecs]

\* new OwidTable([])
EmptyTable == DetectAndAddColumnsFromRows(NewTable(<<>>, <<>>))

\* AbstractTable.columnNames
ColumnNames(t) == {ColumnName(t.columns[i]) : i \in 1..Len(t.columns)}

\* AbstractTable.deleteColumnBySlug: the field is deleted from every row; the
\* slug is deleted from the Set that the getter columnNames builds, which is
\* not the registry
DeleteColumnBySlug(t, slug) ==
    [t EXCEPT !.rows = [i \in 1..Len(t.rows) |-> DeleteField(t.rows[i], slug)]]

\* fn(row, index): None when the function returns undefined. The function
\* addRollingAverageColumn registers returns averages[index]
FnResult(fn, row, index) ==
    IF fn.kind = "averages"
    THEN IF index + 1 \in DOMAIN fn.averages /\ fn.averages[index + 1].tag # "undefined"
         THEN Some(fn.averages[index + 1])
         ELSE None
    ELSE IF fn.kind = "idPlusIndex"
    THEN Some(10 * row["entityId"] + index + fn.n)
    ELSE Some(ApplyFn(fn, row))

\* row[slug] = value: a field assigned undefined reads as a field the row
\* does not have
AssignField(row, slug, value) ==
    IF value = None THEN DeleteField(row, slug) ELSE SetField(row, slug, OrElse(value, 0))

\* AbstractTable._addComputedColumn
AddComputedColumnImpl(t, spec) ==
    [rows |-> [i \in 1..Len(t.rows) |->
                  AssignField(t.rows[i], spec.slug, FnResult(spec.fn, t.rows[i], i - 1))],
     columns |-> ColumnsSet(t.columns, spec)]

\* AbstractTable.addComputedColumn
AddComputedColumn(t, spec) == AddComputedColumnImpl(t, spec)

\* AbstractTable.addFilterColumn
AddFilterColumn(t, slug, predicate) ==
    AddComputedColumnImpl(t, [ColumnSpec(slug) EXCEPT !.isFilterColumn = TRUE, !.fn = predicate])

\* addRowsAndDetectColumns applying the function of every computed column
\* to the rows it appends
AddRowsAndDetectColumnsComputed(t, rows) ==
    LET computed(i) == t.columns[i].fn.kind # "none"
        idx == SelectSeqIdx(t.columns, computed, 1)
        fill(row, index) ==
            [f \in (DOMAIN row) \cup {t.columns[idx[k]].slug : k \in 1..Len(idx)} |->
                IF f \in DOMAIN row THEN row[f]
                ELSE OrElse(FnResult(ColumnsGet(t.columns, f).fn, row, index), 0)]
    IN DetectAndAddColumnsFromRows(
           [t EXCEPT !.rows = t.rows \o [k \in 1..Len(rows) |-> fill(rows[k], Len(t.rows) + k - 1)]])

\* AbstractTable.addRowsAndDetectColumns
AddRowsAndDetectColumns(t, rows) ==
    DetectAndAddColumnsFromRows([t EXCEPT !.rows = t.rows \o rows])

\* AbstractTable.filterColumnSlugs
FilterColumnSlugs(t) ==
    LET isFilter(i) == t.columns[i].isFilterColumn
        idx == SelectSeqIdx(t.columns, isFilter, 1)
    IN Eager([k \in 1..Len(idx) |-> t.columns[idx[k]].slug])

\* the value filterFn reads for one filter column: the cached field if the
\* row has it, else the predicate's result
FilterValue(t, row, slug) ==
    IF Has(row, slug) THEN row[slug] ELSE ApplyFn(ColumnsGet(t.columns, slug).fn, row)

\* filterFn with some() in place of every()
FilterFnSome(t, row) ==
    LET slugs == FilterColumnSlugs(t)
    IN \E k \in 1..Len(slugs) : FilterValue(t, row, slugs[k]) = TRUE

\* filterFn of unfilteredRows: slugs.every(...)
FilterFn(t, row) ==
    LET slugs == FilterColumnSlugs(t)
    IN \A k \in 1..Len(slugs) : FilterValue(t, row, slugs[k]) = TRUE

RECURSIVE CacheFilters(_, _, _)
\* the fields filterFn writes into a row: every() stops at the first falsy
CacheFilters(t, row, slugs) ==
    IF slugs = <<>> THEN row
    ELSE LET slug == Head(slugs)
             v == FilterValue(t, row, slug)
             cached == IF Has(row, slug) THEN row ELSE SetField(row, slug, v)
         IN IF v = TRUE THEN CacheFilters(t, cached, Tail(slugs)) ELSE cached

\* unfilteredRows storing the rows that pass as the rows of the table
AfterReadUnfilteredRowsStored(t) ==
    LET slugs == FilterColumnSlugs(t)
        pass(i) == FilterFn(t, t.rows[i])
        cached == [i \in 1..Len(t.rows) |-> CacheFilters(t, t.rows[i], slugs)]
    IN [t EXCEPT !.rows = ElementsAt(cached, SelectSeqIdx(t.rows, pass, 1))]

\* AbstractTable.unfilteredRows (the table after the read)
AfterReadUnfilteredRows(t) ==
    LET slugs == FilterColumnSlugs(t)
    IN [t EXCEPT !.rows = Eager([i \in 1..Len(t.rows) |-> CacheFilters(t, t.rows[i], slugs)])]

\* the positions of the rows that pass filterFn, in row-store order
PassingPositions(t) ==
    LET pass(i) == FilterFn(t, t.rows[i])
    IN SelectSeqIdx(t.rows, pass, 1)

\* AbstractTable.unfilteredRows (the value returned): the rows that pass
\* filterFn, which are the row objects filterFn has written to
UnfilteredRows(t) ==
    IF Len(FilterColumnSlugs(t)) > 0
    THEN ElementsAt(AfterReadUnfilteredRows(t).rows, PassingPositions(t))
    ELSE t.rows

(***************************************************************************)
(* AbstractTable.toDelimited.                                              *)
(***************************************************************************)
\* the fields of a row that hold a string, and those that hold a boolean
StringFields == {"entityName", "entityCode", "4-tax-annotations", "8-tests-annotations"}

BooleanFields == {"pop_filter", "f1", "f2"}

\* String(row[field]), as Array.prototype.join writes a value
FieldToString(row, field) ==
    IF field \in StringFields THEN row[field]
    ELSE IF field \in BooleanFields THEN (IF row[field] THEN "true" ELSE "false")
    ELSE ToString(row[field])

RECURSIVE Join(_, _)
\* Array.prototype.join
Join(strings, delimiter) ==
    IF strings = <<>> THEN ""
    ELSE IF Len(strings) = 1 THEN strings[1]
    ELSE strings[1] \o delimiter \o Join(Tail(strings), delimiter)

\* Array.from(this.columnNames): the names of the registered columns, each
\* once, in registration order
ColumnNamesArray(t) == Uniq([i \in 1..Len(t.columns) |-> ColumnName(t.columns[i])])

\* AbstractTable.toDelimited(delimiter, rowLimit), rowLimit 0 for undefined:
\* a cell is row[cName] ?? "", cName being the column's name
ToDelimited(t, delimiter, rowLimit) ==
    LET cols == ColumnNamesArray(t)
        header == Join(cols, delimiter) \o "\n"
        rows == IF rowLimit # 0 THEN SubSeq(t.rows, 1, Min({rowLimit, Len(t.rows)})) ELSE t.rows
        cell(row, cName) == IF Has(row, cName) THEN FieldToString(row, cName) ELSE ""
        body == Join([r \in 1..Len(rows) |->
                         Join([c \in 1..Len(cols) |-> cell(rows[r], cols[c])], delimiter)],
                     "\n")
    IN header \o body

(***************************************************************************)
(* Smoothing: charts/Util computeRollingAverage and                        *)
(* insertMissingValuePlaceholders, and the grouped rolling average of the  *)
(* table. A value of a sequence is undefined, null, NaN or a number; a     *)
(* number is the fraction num/den in lowest terms.                         *)
(***************************************************************************)
Undefined == [tag |-> "undefined", num |-> 0, den |-> 1]

Null == [tag |-> "null", num |-> 0, den |-> 1]

NaN == [tag |-> "NaN", num |-> 0, den |-> 1]

Num(n) == [tag |-> "number", num |-> n, den |-> 1]

RECURSIVE FlattenSeqs(_)
\* lodash flatten
FlattenSeqs(ss) == IF ss = <<>> THEN <<>> ELSE Head(ss) \o FlattenSeqs(Tail(ss))

RECURSIVE Gcd(_, _)
Gcd(a, b) == IF b = 0 THEN a ELSE Gcd(b, a % b)

\* sum / count
Divide(sum, count) ==
    IF count = 0 THEN NaN
    ELSE LET g == Gcd(IF sum < 0 THEN -sum ELSE sum, count)
         IN [tag |-> "number", num |-> sum \div g, den |-> count \div g]

RECURSIVE SumAt(_, _)
\* the sum of the integers numbers[k], k in idx
SumAt(numbers, idx) ==
    IF idx = {} THEN 0
    ELSE LET k == CHOOSE k \in idx : TRUE
         IN numbers[k].num + SumAt(numbers, idx \ {k})

\* computeRollingAverage dividing by the length of the window
ComputeRollingAverageByWindowLength(numbers, windowSize, align) ==
    LET expand == windowSize - 1
        expandLeft == IF align = "center" THEN (expand + 1) \div 2 ELSE expand
        expandRight == IF align = "center" THEN expand \div 2 ELSE 0
        average(i) ==
            LET startIndex == IF i - expandLeft > 1 THEN i - expandLeft ELSE 1
                endIndex == IF i + expandRight < Len(numbers) THEN i + expandRight ELSE Len(numbers)
                idx == {k \in startIndex..endIndex : numbers[k].tag = "number"}
            IN Divide(SumAt(numbers, idx), endIndex - startIndex + 1)
    IN Eager([i \in 1..Len(numbers) |->
                 IF numbers[i].tag = "number" THEN average(i) ELSE numbers[i]])

\* computeRollingAverage averaging at the null positions too
ComputeRollingAverageOverNull(numbers, windowSize, align) ==
    LET expand == windowSize - 1
        expandLeft == IF align = "center" THEN (expand + 1) \div 2 ELSE expand
        expandRight == IF align = "center" THEN expand \div 2 ELSE 0
        average(i) ==
            LET startIndex == IF i - expandLeft > 1 THEN i - expandLeft ELSE 1
                endIndex == IF i + expandRight < Len(numbers) THEN i + expandRight ELSE Len(numbers)
                idx == {k \in startIndex..endIndex : numbers[k].tag = "number"}
            IN Divide(SumAt(numbers, idx), Cardinality(idx))
    IN Eager([i \in 1..Len(numbers) |->
                 IF numbers[i].tag = "undefined" THEN numbers[i] ELSE average(i)])

\* computeRollingAverage(numbers, windowSize, align): null and undefined
\* stay where they are; a number becomes the mean of the numbers in its
\* window, which ends at the position ("right") or is centred on it
\* ("center", the odd element of an even window on the left)
ComputeRollingAverage(numbers, windowSize, align) ==
    LET expand == windowSize - 1
        expandLeft == IF align = "center" THEN (expand + 1) \div 2 ELSE expand
        expandRight == IF align = "center" THEN expand \div 2 ELSE 0
        average(i) ==
            LET startIndex == IF i - expandLeft > 1 THEN i - expandLeft ELSE 1
                endIndex == IF i + expandRight < Len(numbers) THEN i + expandRight ELSE Len(numbers)
                idx == {k \in startIndex..endIndex : numbers[k].tag = "number"}
            IN Divide(SumAt(numbers, idx), Cardinality(idx))
    IN Eager([i \in 1..Len(numbers) |->
                 IF numbers[i].tag = "number" THEN average(i) ELSE numbers[i]])

\* insertMissingValuePlaceholders with one null per gap, whatever its length
InsertMissingValuePlaceholdersPerGap(values, years) ==
    IF years = <<>> THEN <<>>
    ELSE FlattenSeqs([k \in 1..Len(years) |->
             IF k > 1 /\ years[k] > years[k - 1] + 1 THEN <<Null, values[k]>> ELSE <<values[k]>>])

\* insertMissingValuePlaceholders(values, years): one entry per integer time
\* from the first to the last, the value observed at that time or null
InsertMissingValuePlaceholders(values, years) ==
    IF years = <<>> THEN <<>>
    ELSE LET startYear == years[1]
             endYear == years[Len(years)]
             at(year) == {k \in 1..Len(years) : years[k] = year}
         IN Eager([j \in 1..(endYear - startYear + 1) |->
                      LET ks == at(startYear + j - 1)
                      IN IF ks = {} THEN Null
                         ELSE values[CHOOSE k \in ks : \A m \in ks : m <= k]])

\* valueAccessor(row) for the accessor row => row[slug], as a value of a
\* sequence to smooth
ValueOf(row, slug) == IF Has(row, slug) THEN Num(row[slug]) ELSE Undefined

\* the averages computeRollingAveragesForEachGroup pushes for currentRows
GroupAverages(currentRows, valueSlug, dateColName, rollingAverage) ==
    LET values == [k \in 1..Len(currentRows) |-> ValueOf(currentRows[k], valueSlug)]
        dates == [k \in 1..Len(currentRows) |-> currentRows[k][dateColName]]
        averages == ComputeRollingAverage(InsertMissingValuePlaceholders(values, dates),
                                          rollingAverage, "right")
        kept(k) == averages[k].tag # "null"
    IN ElementsAt(averages, SelectSeqIdx(averages, kept, 1))

RECURSIVE GroupLoop(_, _, _, _, _, _, _, _)
\* the loop of computeRollingAveragesForEachGroup from position i on, which
\* runs while i < rows.length: the averages of currentRows are pushed when a
\* row of another group is met
GroupLoop(rows, valueSlug, groupColName, dateColName, rollingAverage, i, currentGroup, acc) ==
    IF i > Len(rows) THEN acc.groups
    ELSE LET groupName == rows[i][groupColName]
         IN IF currentGroup # groupName
            THEN GroupLoop(rows, valueSlug, groupColName, dateColName, rollingAverage,
                           i + 1, groupName,
                           [groups |-> Append(acc.groups,
                                              GroupAverages(acc.currentRows, valueSlug,
                                                            dateColName, rollingAverage)),
                            currentRows |-> <<rows[i]>>])
            ELSE GroupLoop(rows, valueSlug, groupColName, dateColName, rollingAverage,
                           i + 1, currentGroup,
                           [groups |-> acc.groups, currentRows |-> Append(acc.currentRows, rows[i])])

\* computeRollingAveragesForEachGroup, for rows that are not empty
ComputeRollingAveragesForEachGroup(rows, valueSlug, groupColName, dateColName, rollingAverage) ==
    FlattenSeqs(GroupLoop(rows, valueSlug, groupColName, dateColName, rollingAverage,
                          1, rows[1][groupColName], [groups |-> <<>>, currentRows |-> <<>>]))

\* AbstractTable.addRollingAverageColumn, valueAccessor being row => row[valueSlug]
AddRollingAverageColumn(t, spec, windowSize, valueSlug, dateColName, groupBy) ==
    LET averages == ComputeRollingAveragesForEachGroup(t.rows, valueSlug, groupBy,
                                                       dateColName, windowSize)
    IN AddComputedColumnImpl(t, [spec EXCEPT !.fn = [kind |-> "averages", n |-> 0,
                                                      averages |-> averages]])

(***************************************************************************)
(* OwidTable.                                                              *)
(***************************************************************************)
\* the key under which columnsByOwidVarId registers the i-th column:
\* column.spec.owidVariableId ?? index (index counts from 0)
OwidVarKey(t, i) == OrElse(t.columns[i].owidVariableId, i - 1)

\* OwidTable.columnsByOwidVarId.has(id)
ColumnsByOwidVarIdHas(t, id) == \E i \in 1..Len(t.columns) : OwidVarKey(t, i) = id

\* OwidTable.columnsByOwidVarId.get(id): the last column set under the key
ColumnsByOwidVarIdGet(t, id) ==
    LET last == CHOOSE i \in 1..Len(t.columns) :
                    /\ OwidVarKey(t, i) = id
                    /\ \A j \in (i + 1)..Len(t.columns) : OwidVarKey(t, j) # id
    IN t.columns[last]

\* OwidTable.entityIdToNameMap: the last row of an id wins
EntityIdToNameMap(t) ==
    LET ids == {t.rows[i]["entityId"] : i \in 1..Len(t.rows)}
        last(id) == CHOOSE i \in 1..Len(t.rows) :
                        /\ t.rows[i]["entityId"] = id
                        /\ \A j \in (i + 1)..Len(t.rows) : t.rows[j]["entityId"] # id
    IN Eager([id \in ids |-> t.rows[last(id)]["entityName"]])

\* OwidTable.entityNameToIdMap
EntityNameToIdMap(t) ==
    LET names == {t.rows[i]["entityName"] : i \in 1..Len(t.rows)}
        last(n) == CHOOSE i \in 1..Len(t.rows) :
                        /\ t.rows[i]["entityName"] = n
                        /\ \A j \in (i + 1)..Len(t.rows) : t.rows[j]["entityName"] # n
    IN Eager([n \in names |-> t.rows[last(n)]["entityId"]])

\* OwidTable.entityNameToCodeMap
EntityNameToCodeMap(t) ==
    LET names == {t.rows[i]["entityName"] : i \in 1..Len(t.rows)}
        last(n) == CHOOSE i \in 1..Len(t.rows) :
                        /\ t.rows[i]["entityName"] = n
                        /\ \A j \in (i + 1)..Len(t.rows) : t.rows[j]["entityName"] # n
    IN Eager([n \in names |-> t.rows[last(n)]["entityCode"]])

\* OwidTable.availableEntities
TableAvailableEntities(t) == Uniq([i \in 1..Len(t.rows) |-> t.rows[i]["entityName"]])

\* OwidTable.columnSpecFromLegacyVariable
ColumnSpecFromLegacyVariable(variable) ==
    [ColumnSpec(ToString(variable.id) \o "-" \o variable.slugName) EXCEPT
        !.name = Some(variable.name),
        !.isDailyMeasurement = variable.yearIsDay,
        !.owidVariableId = Some(variable.id)]

\* OwidTable.makeAnnotationColumnSlug
MakeAnnotationColumnSlug(columnSlug) == columnSlug \o "-annotations"

\* diffDateISOStringInDays(a, b): the whole days from b to a
DiffDateISOStringInDays(a, b) == a - b

\* a conversion that shifts the days the other way
ConvertLegacyYearsBackwards(years, zeroDay) ==
    [i \in 1..Len(years) |-> years[i] - DiffDateISOStringInDays(zeroDay, EpochDate)]

\* OwidTable.convertLegacyYears
ConvertLegacyYears(years, zeroDay) ==
    [i \in 1..Len(years) |-> years[i] + DiffDateISOStringInDays(zeroDay, EpochDate)]

\* yearsNeedTransform of fromLegacy
YearsNeedTransform(variable) ==
    /\ variable.yearIsDay
    /\ variable.zeroDay # None
    /\ variable.zeroDay # Some(EpochDate)

\* the rows fromLegacy builds for one variable
LegacyRows(variable) ==
    LET columnSpec == ColumnSpecFromLegacyVariable(variable)
        timeColumnName == IF columnSpec.isDailyMeasurement THEN "day" ELSE "year"
        years == IF YearsNeedTransform(variable)
                 THEN ConvertLegacyYears(variable.years, OrElse(variable.zeroDay, EpochDate))
                 ELSE variable.years
        ann == variable.annotations
        annSlug == MakeAnnotationColumnSlug(columnSpec.slug)
        base(i) ==
            (timeColumnName :> years[i]) @@ (columnSpec.slug :> variable.values[i]) @@
            [entityName |-> EntityKey[variable.entities[i]].name,
             entityId |-> variable.entities[i],
             entityCode |-> EntityKey[variable.entities[i]].code]
        note(i) == {ann[k][2] : k \in {k \in 1..Len(ann) : ann[k][1] = EntityKey[variable.entities[i]].name}}
        row(i) == IF ann # <<>> /\ note(i) # {}
                  THEN SetField(base(i), annSlug, CHOOSE x \in note(i) : TRUE)
                  ELSE base(i)
    IN [i \in 1..Len(variable.values) |-> row(i)]

\* column specs with an annotations column for every variable
LegacySpecsAllAnnotated(variable) ==
    <<ColumnSpec(IF variable.yearIsDay THEN "day" ELSE "year"),
      ColumnSpecFromLegacyVariable(variable),
      ColumnSpec(MakeAnnotationColumnSlug(ColumnSpecFromLegacyVariable(variable).slug))>>

\* the column specs fromLegacy registers for one variable, in order
LegacySpecs(variable) ==
    LET columnSpec == ColumnSpecFromLegacyVariable(variable)
        annSlug == MakeAnnotationColumnSlug(columnSpec.slug)
        time == ColumnSpec(IF columnSpec.isDailyMeasurement THEN "day" ELSE "year")
    IN IF variable.annotations # <<>>
       THEN <<time, [columnSpec EXCEPT !.annotationsColumnSlug = Some(annSlug)], ColumnSpec(annSlug)>>
       ELSE <<time, columnSpec>>

\* a group key without the entity
GroupKeyOfTime(row) ==
    IF Has(row, "year") THEN "year:" \o ToString(row["year"]) ELSE "day:" \o ToString(row["day"])

\* the key fromLegacy groups rows by
GroupKey(row) ==
    (IF Has(row, "year") THEN "year:" \o ToString(row["year"]) ELSE "day:" \o ToString(row["day"]))
        \o " " \o row["entityName"]

RECURSIVE JoinRows(_, _)
\* groupBy + Object.assign({}, ...group), groups in order of first occurrence
JoinRows(joined, rows) ==
    IF rows = <<>> THEN joined
    ELSE LET row == Head(rows)
             hit == {i \in 1..Len(joined) : GroupKey(joined[i]) = GroupKey(row)}
         IN IF hit = {}
            THEN JoinRows(Append(joined, row), Tail(rows))
            ELSE JoinRows([i \in 1..Len(joined) |-> IF i \in hit THEN Assign(joined[i], row) ELSE joined[i]],
                          Tail(rows))

\* OwidTable.fromLegacy(json), json holding the variables `ids`
\* (for..in lists integer-like keys in ascending order)
FromLegacy(ids) ==
    LET order == SortedSeq(ids)
        identity == <<ColumnSpec("entityName"), ColumnSpec("entityId"), ColumnSpec("entityCode")>>
        rows == FlattenSeqs([k \in 1..Len(order) |-> LegacyRows(OwidVariables[order[k]])])
        specs == FlattenSeqs([k \in 1..Len(order) |-> LegacySpecs(OwidVariables[order[k]])])
    IN NewTable(JoinRows(<<>>, rows), ColumnsSetAll(identity, specs))

(***************************************************************************)
(* The state of one chart session.                                         *)
(***************************************************************************)
VARIABLES
    isNode,               \* ChartConfig.isNode
    type,                 \* props.type
    dimensions,           \* props.dimensions
    selectedData,         \* props.selectedData
    addCountryMode,       \* props.addCountryMode
    minPopulationFilter,  \* props.minPopulationFilter, 0 for undefined
    table,                \* ChartConfig.table
    variableIdsValue,     \* the value of variableIds the reaction last saw
    fetchLog,             \* the value of variableIds at each call of downloadData
    pending,              \* the requests of downloadData that are in flight
    error,                \* the error raised by the last operation, "" for none
    lastOp,               \* the name of the last operation performed
    args,                 \* the arguments of the last call of a function followed
    result                \* the value that call returned

vars == <<isNode, type, dimensions, selectedData, addCountryMode,
          minPopulationFilter, table, variableIdsValue, fetchLog, pending, error,
          lastOp, args, result>>

\* no call of a function has been followed
NoCall == <<>>


\* an absent color
NoColor == "none"

Colors == {NoColor, "red"}

\* the dimensions a configuration is built from
DimY2 == [property |-> "y", variableId |-> 2, display |-> "-"]

DimY5 == [property |-> "y", variableId |-> 5, display |-> "-"]

DimY5Unit == [property |-> "y", variableId |-> 5, display |-> "unit"]

DimX5 == [property |-> "x", variableId |-> 5, display |-> "-"]

DimX2 == [property |-> "x", variableId |-> 2, display |-> "-"]

\* the dimension lists a configuration is given
DimensionLists ==
    {<<>>, <<DimY5>>, <<DimY2>>, <<DimY5Unit>>, <<DimY5, DimY2>>, <<DimY2, DimY5>>,
     <<DimY5, DimY5>>, <<DimY5, DimX2>>, <<DimX5>>}

\* the entries a persisted selection list is built from
SelectionEntries ==
    {[entityId |-> 1, index |-> 0, color |-> "red"],
     [entityId |-> 1, index |-> 0, color |-> NoColor],
     [entityId |-> 2, index |-> 0, color |-> NoColor],
     [entityId |-> 2, index |-> 1, color |-> "red"],
     [entityId |-> 3, index |-> 0, color |-> NoColor]}

MinPopulations == {0, 5, 20}

(***************************************************************************)
(* ChartConfig: derived values.                                            *)
(***************************************************************************)
\* variableIds without uniq
VariableIdsOfAll(dims) == [i \in 1..Len(dims) |-> dims[i].variableId]

\* ChartConfig.variableIds: uniq(dimensions.map(d => d.variableId))
VariableIds(dims) == Uniq([i \in 1..Len(dims) |-> dims[i].variableId])

\* ChartConfig.dimensionSlots (property and allowMultiple of each slot)
DimensionSlots(chartType) ==
    IF chartType = "ScatterPlot"
    THEN <<[property |-> "y", allowMultiple |-> FALSE], [property |-> "x", allowMultiple |-> FALSE],
           [property |-> "size", allowMultiple |-> FALSE], [property |-> "color", allowMultiple |-> FALSE]>>
    ELSE IF chartType = "TimeScatter"
    THEN <<[property |-> "y", allowMultiple |-> FALSE], [property |-> "x", allowMultiple |-> FALSE]>>
    ELSE IF chartType = "SlopeChart"
    THEN <<[property |-> "y", allowMultiple |-> FALSE], [property |-> "size", allowMultiple |-> FALSE],
           [property |-> "color", allowMultiple |-> FALSE]>>
    ELSE <<[property |-> "y", allowMultiple |-> TRUE]>>

\* validDimensions that keeps the last of the dimensions competing for a slot
ValidDimensionsKeepingLast(dims, chartType) ==
    LET slots == DimensionSlots(chartType)
        single == {slots[k].property : k \in {k \in 1..Len(slots) : ~slots[k].allowMultiple}}
        keep(i) == /\ \E k \in 1..Len(slots) : slots[k].property = dims[i].property
                   /\ dims[i].property \in single =>
                          \A j \in (i + 1)..Len(dims) : dims[j].property # dims[i].property
        idx == SelectSeqIdx(dims, keep, 1)
    IN Eager([k \in 1..Len(idx) |-> dims[idx[k]]])

\* ChartConfig.validDimensions
ValidDimensions(dims, chartType) ==
    LET slots == DimensionSlots(chartType)
        single == {slots[k].property : k \in {k \in 1..Len(slots) : ~slots[k].allowMultiple}}
        keep(i) == /\ \E k \in 1..Len(slots) : slots[k].property = dims[i].property
                   /\ dims[i].property \in single =>
                          \A j \in 1..(i - 1) : dims[j].property # dims[i].property
        idx == SelectSeqIdx(dims, keep, 1)
    IN Eager([k \in 1..Len(idx) |-> dims[idx[k]]])

(***************************************************************************)
(* ChartData: derived values, as functions of the table and the            *)
(* configuration they read.                                                *)
(***************************************************************************)
\* ChartData.loadingVarIds
LoadingVarIdsOf(t, dims) ==
    LET missing(i) == ~ColumnsByOwidVarIdHas(t, dims[i].variableId)
        idx == SelectSeqIdx(dims, missing, 1)
    IN Eager([k \in 1..Len(idx) |-> dims[idx[k]].variableId])

\* ChartData.isReady
IsReadyOf(t, dims) == Len(LoadingVarIdsOf(t, dims)) = 0

\* filledDimensions without the isReady guard: the dimensions whose column
\* is in the table
FilledDimensionsOfResolved(t, dims) ==
    LET resolved(i) == ColumnsByOwidVarIdHas(t, dims[i].variableId)
        idx == SelectSeqIdx(dims, resolved, 1)
    IN [k \in 1..Len(idx) |->
            [index |-> idx[k] - 1, property |-> dims[idx[k]].property,
             variableId |-> dims[idx[k]].variableId, display |-> dims[idx[k]].display,
             column |-> ColumnsByOwidVarIdGet(t, dims[idx[k]].variableId)]]

\* ChartData.filledDimensions
FilledDimensionsOf(t, dims) ==
    IF ~IsReadyOf(t, dims) THEN <<>>
    ELSE Eager([i \in 1..Len(dims) |->
            [index |-> i - 1, property |-> dims[i].property,
             variableId |-> dims[i].variableId, display |-> dims[i].display,
             column |-> ColumnsByOwidVarIdGet(t, dims[i].variableId)]])

\* ChartData.primaryDimensions
PrimaryDimensionsOf(t, dims) ==
    SelectSeq(FilledDimensionsOf(t, dims), LAMBDA d : d.property = "y")

\* ChartData.axisDimensions
AxisDimensionsOf(t, dims) ==
    SelectSeq(FilledDimensionsOf(t, dims), LAMBDA d : d.property = "y" \/ d.property = "x")

\* AbstractColumn.rows
ColumnRows(t, column) == SelectSeq(UnfilteredRows(t), LAMBDA row : Has(row, column.slug))

\* the distinct entity names of rows, in order of first occurrence
EntityNamesOfRows(rows) == Uniq([i \in 1..Len(rows) |-> rows[i]["entityName"]])

\* ChartDimensionWithOwidVariable.entityNamesUniq
EntityNamesUniq(t, column) == EntityNamesOfRows(ColumnRows(t, column))

\* a key made without the separator
MakeEntityDimensionKeyJoined(entityName, dimensionIndex) ==
    entityName \o ToString(dimensionIndex)

\* ChartData.makeEntityDimensionKey
MakeEntityDimensionKey(entityName, dimensionIndex) ==
    entityName \o "_" \o ToString(dimensionIndex)

IsReady == IsReadyOf(table, dimensions)

LoadingVarIds == LoadingVarIdsOf(table, dimensions)

FilledDimensions == FilledDimensionsOf(table, dimensions)

PrimaryDimensions == PrimaryDimensionsOf(table, dimensions)

AxisDimensions == AxisDimensionsOf(table, dimensions)

\* ChartConfig.addCountryMode
AddCountryMode == addCountryMode

\* ChartConfig.isSingleVariable
IsSingleVariable == Len(PrimaryDimensions) = 1

\* ChartConfig.isSingleEntity
IsSingleEntity == Len(TableAvailableEntities(table)) = 1 \/ AddCountryMode = "change-country"

\* the entity names of each primary dimension, by position
\* the entity names of the whole table for each primary dimension
PrimaryEntityNamesOfTable(t, prim) ==
    Eager([k \in 1..Len(prim) |-> TableAvailableEntities(t)])

PrimaryEntityNamesOf(t, prim) ==
    Eager([k \in 1..Len(prim) |-> EntityNamesUniq(t, prim[k].column)])

PrimaryEntityNames == PrimaryEntityNamesOf(table, PrimaryDimensions)

\* ChartDimensionWithOwidVariable.displayName: props.display.name, else the
\* variable's display.name, else the column's name (no dimension and no
\* variable considered here carries a display.name)
DisplayName(dimension) == ColumnName(dimension.column)

\* the label with the two tests the other way round
LabelSingleEntityFirst(entityName, displayName, isSingleVariable, isSingleEntity) ==
    IF isSingleEntity THEN displayName
    ELSE IF isSingleVariable THEN entityName
    ELSE entityName \o " - " \o displayName

\* the label of an entry of entityDimensionMap
Label(entityName, displayName, isSingleVariable, isSingleEntity) ==
    IF isSingleVariable THEN entityName
    ELSE IF isSingleEntity THEN displayName
    ELSE entityName \o " - " \o displayName

\* entityCode || entityName: an entity without a code has the code ""
CodeOrName(entityCode, entityName) == IF entityCode = "" THEN entityName ELSE entityCode

\* the EntityDimensionInfo with the code alone as shortCode
EntityDimensionInfoCodeOnly(prim, k, entityName, nameToId, nameToCode, manyPrimary, isSingleVariable, isSingleEntity) ==
    [entityDimensionKey |-> MakeEntityDimensionKey(entityName, k - 1),
     entityId |-> nameToId[entityName],
     entity |-> entityName,
     dimension |-> prim[k],
     index |-> k - 1,
     fullLabel |-> entityName \o " - " \o DisplayName(prim[k]),
     label |-> Label(entityName, DisplayName(prim[k]), isSingleVariable, isSingleEntity),
     shortCode |-> CodeOrName(nameToCode[entityName], entityName)]

\* the EntityDimensionInfo entityDimensionMap sets for entityName in the
\* k-th primary dimension
EntityDimensionInfo(prim, k, entityName, nameToId, nameToCode, manyPrimary, isSingleVariable, isSingleEntity) ==
    [entityDimensionKey |-> MakeEntityDimensionKey(entityName, k - 1),
     entityId |-> nameToId[entityName],
     entity |-> entityName,
     dimension |-> prim[k],
     index |-> k - 1,
     fullLabel |-> entityName \o " - " \o DisplayName(prim[k]),
     label |-> Label(entityName, DisplayName(prim[k]), isSingleVariable, isSingleEntity),
     shortCode |->
        IF manyPrimary
        THEN CodeOrName(nameToCode[entityName], entityName) \o "-" \o ToString(prim[k].index)
        ELSE CodeOrName(nameToCode[entityName], entityName)]

\* the calls of keyData.set of entityDimensionMap, in order
EntityDimensionEntries(prim, names, nameToId, nameToCode, manyPrimary, isSingleVariable, isSingleEntity) ==
    FlattenSeqs([k \in 1..Len(prim) |->
                    [j \in 1..Len(names[k]) |->
                        EntityDimensionInfo(prim, k, names[k][j], nameToId, nameToCode,
                                            manyPrimary, isSingleVariable, isSingleEntity)]])

\* the Map after the calls of keyData.set: a later entry under the same key
\* replaces the earlier one
KeyData(entries) ==
    Eager([key \in {entries[i].entityDimensionKey : i \in 1..Len(entries)} |->
              entries[CHOOSE i \in 1..Len(entries) :
                          /\ entries[i].entityDimensionKey = key
                          /\ \A j \in (i + 1)..Len(entries) :
                                 entries[j].entityDimensionKey # key]])

\* ChartData.entityDimensionMap, given the computed values it reads
EntityDimensionMapOf(isReady, prim, names, nameToId, nameToCode, mode, isSingleVariable, isSingleEntity) ==
    IF ~isReady THEN <<>>
    ELSE KeyData(EntityDimensionEntries(prim, names, nameToId, nameToCode,
                                        Len(prim) > 1 /\ mode # "change-country",
                                        isSingleVariable, isSingleEntity))

\* ChartData.entityDimensionMap: key -> EntityDimensionInfo
EntityDimensionMap ==
    EntityDimensionMapOf(IsReady, PrimaryDimensions, PrimaryEntityNames,
                         EntityNameToIdMap(table), EntityNameToCodeMap(table), AddCountryMode,
                         IsSingleVariable, IsSingleEntity)

\* ChartData.availableKeys, as a set (the code sorts the keys)
AvailableKeys == DOMAIN EntityDimensionMap

\* ChartData.lookupKey raises for a key that is not in entityDimensionMap
LookupKeyRaises(entityDimensionMap, key) == key \notin DOMAIN entityDimensionMap

\* ChartData.lookupKey, when it does not raise
LookupKey(entityDimensionMap, key) == entityDimensionMap[key]

\* the filter of selectionData without the test of "change entity" charts
ValidSelectionAnyMode(sel, selection, prim, names, entityIdToNameMap) ==
    /\ sel.index \in 0..(Len(prim) - 1)
    /\ sel.entityId \in DOMAIN entityIdToNameMap
    /\ entityIdToNameMap[sel.entityId] \in Range(names[sel.index + 1])

\* the filter of selectionData without the test that the entity is within
\* the dimension
ValidSelectionAnyEntity(sel, selection, prim, names, entityIdToNameMap) ==
    /\ sel.index \in 0..(Len(prim) - 1)
    /\ sel.entityId \in DOMAIN entityIdToNameMap
    /\ ~(/\ AddCountryMode = "change-country"
         /\ sel.entityId # selection[Len(selection)].entityId)

\* a filter of selectionData that does not test whether the entity has data
\* in the dimension
ValidSelectionOfAnyEntity(sel, selection, prim, names, entityIdToNameMap) ==
    /\ sel.index \in 0..(Len(prim) - 1)
    /\ sel.entityId \in DOMAIN entityIdToNameMap
    /\ ~(/\ AddCountryMode = "change-country"
         /\ sel.entityId # selection[Len(selection)].entityId)

\* the filter of ChartData.selectionData for the entry sel of the persisted
\* list selection, given primaryDimensions, their entity names and
\* entityIdToNameMap
ValidSelection(sel, selection, prim, names, entityIdToNameMap) ==
    /\ sel.index \in 0..(Len(prim) - 1)
    /\ sel.entityId \in DOMAIN entityIdToNameMap
    /\ entityIdToNameMap[sel.entityId] \in Range(names[sel.index + 1])
    /\ ~(/\ AddCountryMode = "change-country"
         /\ sel.entityId # selection[Len(selection)].entityId)

\* the entries of selection that pass the filter of selectionData
ValidSelections(selection, prim, names, entityIdToNameMap) ==
    LET valid(i) == ValidSelection(selection[i], selection, prim, names, entityIdToNameMap)
    IN ElementsAt(selection, SelectSeqIdx(selection, valid, 1))

\* uniqWith(validSelections, same entityId and index): the first entry of
\* each pair
UniqWith(validSelections) ==
    LET first(i) == \A j \in 1..(i - 1) :
                        ~(/\ validSelections[j].entityId = validSelections[i].entityId
                          /\ validSelections[j].index = validSelections[i].index)
    IN ElementsAt(validSelections, SelectSeqIdx(validSelections, first, 1))

\* the key and color selectionData returns for each entry
KeyedSelections(validSelections, entityIdToNameMap) ==
    Eager([k \in 1..Len(validSelections) |->
            [entityDimensionKey |->
                 MakeEntityDimensionKey(entityIdToNameMap[validSelections[k].entityId],
                                        validSelections[k].index),
             color |-> validSelections[k].color]])

\* ChartData.selectionData, given the computed values it reads
SelectionDataWith(selection, prim, names, entityIdToNameMap) ==
    KeyedSelections(UniqWith(ValidSelections(selection, prim, names, entityIdToNameMap)),
                    entityIdToNameMap)

\* ChartData.selectionData when props.selectedData is selection
SelectionDataOf(selection) ==
    SelectionDataWith(selection, PrimaryDimensions, PrimaryEntityNames, EntityIdToNameMap(table))

\* the keys of selectionData
KeysOf(selectionData) ==
    Eager([i \in 1..Len(selectionData) |-> selectionData[i].entityDimensionKey])

\* ChartData.selectedKeys (getter) when props.selectedData is selection
SelectedKeysOf(selection) == KeysOf(SelectionDataOf(selection))

SelectionData == SelectionDataOf(selectedData)

SelectedKeys == SelectedKeysOf(selectedData)

\* keyColors that holds no color
KeyColorDropped(selectionData, key) == NoColor

\* ChartData.keyColors[key], given selectionData: the color of the last
\* entry of the key that has a color
KeyColor(selectionData, key) ==
    LET hits == {i \in 1..Len(selectionData) :
                    /\ selectionData[i].entityDimensionKey = key
                    /\ selectionData[i].color # NoColor}
    IN IF hits = {} THEN NoColor
       ELSE selectionData[CHOOSE i \in hits : \A j \in hits : j <= i].color

\* reading ChartData.selectedEntities / selectedEntityCodes raises when
\* lookupKey does
SelectedEntitiesRaises ==
    LET entityDimensionMap == EntityDimensionMap
        selectedKeys == SelectedKeys
    IN \E i \in 1..Len(selectedKeys) : LookupKeyRaises(entityDimensionMap, selectedKeys[i])

\* ChartData.selectedEntities
SelectedEntities ==
    LET entityDimensionMap == EntityDimensionMap
        selectedKeys == SelectedKeys
    IN Uniq([i \in 1..Len(selectedKeys) |-> LookupKey(entityDimensionMap, selectedKeys[i]).entity])

\* ChartData.selectedEntityCodes
SelectedEntityCodes ==
    LET entityDimensionMap == EntityDimensionMap
        selectedKeys == SelectedKeys
    IN Uniq([i \in 1..Len(selectedKeys) |-> LookupKey(entityDimensionMap, selectedKeys[i]).shortCode])

\* ChartData.availableEntities, as a set
AvailableEntities ==
    LET entityDimensionMap == EntityDimensionMap
        axis == AxisDimensions
    IN {entityDimensionMap[k].entity :
           k \in {k \in DOMAIN entityDimensionMap :
                     \E a \in 1..Len(axis) :
                         entityDimensionMap[k].dimension.variableId = axis[a].variableId}}

(***************************************************************************)
(* ChartConfig: the reactions wired in the constructor.                    *)
(***************************************************************************)
\* the comparison of computed.struct: the reaction on variableIds runs its
\* effect when the new value differs structurally from the last one
VariableIdsChanged(old, new) == new # old

\* ChartConfig.downloadData called while variableIds = ids: the requests in
\* flight afterwards (no request without variables or on the server)
DownloadData(ids, node, inFlight) ==
    IF Len(ids) = 0 \/ node THEN inFlight ELSE inFlight \cup {ids}

\* a reaction that runs its effect at every evaluation
ReactionRunAlways(r, ids, node) ==
    [value |-> ids, log |-> Append(r.log, ids), pending |-> DownloadData(ids, node, r.pending)]

\* one run of reaction(() => this.variableIds, this.downloadData) when
\* variableIds evaluates to ids; r holds the value last seen, the log of the
\* calls of downloadData and the requests in flight
ReactionRun(r, ids, node) ==
    IF VariableIdsChanged(r.value, ids)
    THEN [value |-> ids, log |-> Append(r.log, ids), pending |-> DownloadData(ids, node, r.pending)]
    ELSE r

\* props.dimensions = dims, followed by the reactions it triggers: the
\* reaction on variableIds, then (in the client) the autorun of
\* ensureValidConfig that replaces the list by validDimensions, then the
\* reaction on variableIds again
AssignDimensions(r, dims, node, chartType) ==
    LET r1 == ReactionRun(r, VariableIds(dims), node)
        valid == ValidDimensions(dims, chartType)
    IN IF node
       THEN [dimensions |-> dims, reaction |-> r1]
       ELSE [dimensions |-> valid, reaction |-> ReactionRun(r1, VariableIds(valid), node)]

\* the reaction on variableIds is created with fireImmediately: its first run
\* calls downloadData whatever the value
FirstReactionRun(ids, node) ==
    [value |-> ids, log |-> <<ids>>, pending |-> DownloadData(ids, node, {})]

\* new ChartConfig(props): the dimensions and the reaction's state after the
\* constructor
Constructed(dims, node, chartType) ==
    LET r0 == FirstReactionRun(VariableIds(dims), node)
        valid == ValidDimensions(dims, chartType)
    IN IF node
       THEN [dimensions |-> dims, reaction |-> r0]
       ELSE [dimensions |-> valid, reaction |-> ReactionRun(r0, VariableIds(valid), node)]

\* ChartConfig.updatePopulationFilter
UpdatePopulationFilter(t, minPop) ==
    IF minPop = 0
    THEN DeleteColumnBySlug(t, "pop_filter")
    ELSE AddFilterColumn(t, "pop_filter", PopulationFilterFn(minPop))

\* ChartConfig.receiveData(json), json holding the variables of ids
ReceiveData(ids, minPop) == UpdatePopulationFilter(FromLegacy(ids), minPop)

(***************************************************************************)
(* Operations.                                                             *)
(***************************************************************************)
\* chart.props.dimensions = dims (editor, update(json), DimensionSlot.dimensions)
SetDimensions(dims) ==
    LET a == AssignDimensions([value |-> variableIdsValue, log |-> fetchLog, pending |-> pending],
                              dims, isNode, type)
    IN /\ Len(a.reaction.log) <= MaxFetch
       /\ dimensions' = a.dimensions
       /\ variableIdsValue' = a.reaction.value
       /\ fetchLog' = a.reaction.log
       /\ pending' = a.reaction.pending
       /\ error' = ""
       /\ lastOp' = "setDimensions"
       /\ UNCHANGED <<args, result>>
       /\ UNCHANGED <<isNode, type, selectedData, addCountryMode, minPopulationFilter, table>>

\* chart.props.minPopulationFilter = minPop; its reaction calls
\* updatePopulationFilter when the value changed
SetMinPopulationFilter(minPop) ==
    /\ minPopulationFilter' = minPop
    /\ table' = IF minPop # minPopulationFilter THEN UpdatePopulationFilter(table, minPop) ELSE table
    /\ error' = ""
    /\ lastOp' = "setMinPopulationFilter"
    /\ UNCHANGED <<args, result>>
    /\ UNCHANGED <<isNode, type, dimensions, selectedData, addCountryMode,
                   variableIdsValue, fetchLog, pending>>

\* the request for ids resolves: downloadData resumes with receiveData(json)
FetchResolve(ids) ==
    /\ ids \in pending
    /\ pending' = pending \ {ids}
    /\ table' = ReceiveData(Range(ids), minPopulationFilter)
    /\ error' = ""
    /\ lastOp' = "fetchResolve"
    /\ UNCHANGED <<args, result>>
    /\ UNCHANGED <<isNode, type, dimensions, selectedData, addCountryMode,
                   minPopulationFilter, variableIdsValue, fetchLog>>

\* a downloadData that writes the data of ids back although the request was
\* rejected
FetchRejectWritesBack(ids) ==
    /\ ids \in pending
    /\ pending' = pending \ {ids}
    /\ table' = ReceiveData(Range(ids), minPopulationFilter)
    /\ error' = ""
    /\ lastOp' = "fetchReject"
    /\ UNCHANGED <<args, result>>
    /\ UNCHANGED <<isNode, type, dimensions, selectedData, addCountryMode,
                   minPopulationFilter, variableIdsValue, fetchLog>>

\* the request for ids is rejected: downloadData ends without receiveData
FetchReject(ids) ==
    /\ ids \in pending
    /\ pending' = pending \ {ids}
    /\ error' = ""
    /\ lastOp' = "fetchReject"
    /\ UNCHANGED <<args, result>>
    /\ UNCHANGED <<isNode, type, dimensions, selectedData, addCountryMode,
                   minPopulationFilter, table, variableIdsValue, fetchLog>>

\* scripts/resaveChartData: chart.receiveData(await getVariableData(variableIds))
ResaveReceiveData ==
    /\ isNode
    /\ table' = ReceiveData(Range(VariableIds(dimensions)), minPopulationFilter)
    /\ error' = ""
    /\ lastOp' = "receiveData"
    /\ UNCHANGED <<args, result>>
    /\ UNCHANGED <<isNode, type, dimensions, selectedData, addCountryMode,
                   minPopulationFilter, variableIdsValue, fetchLog, pending>>

\* a setter of selectedKeys that adds the entries of the keys to the list
SelectionForKeysAppended(entityDimensionMap, entityNameToIdMap, selectionData, keys) ==
    selectedData \o
    [i \in 1..Len(keys) |->
        [entityId |-> entityNameToIdMap[LookupKey(entityDimensionMap, keys[i]).entity],
         index |-> LookupKey(entityDimensionMap, keys[i]).index,
         color |-> KeyColor(selectionData, keys[i])]]

\* the list the setter of selectedKeys stores for keys of the key index,
\* given the computed values it reads
SelectionForKeys(entityDimensionMap, entityNameToIdMap, selectionData, keys) ==
    Eager([i \in 1..Len(keys) |->
        [entityId |-> entityNameToIdMap[LookupKey(entityDimensionMap, keys[i]).entity],
         index |-> LookupKey(entityDimensionMap, keys[i]).index,
         color |-> KeyColor(selectionData, keys[i])]])

\* a setter of selectedKeys that passes over the keys lookupKey does not know
SelectedKeysSetterSkipsUnknown(isReady, entityDimensionMap, entityNameToIdMap, selectionData, selection, keys) ==
    IF ~isReady
    THEN [error |-> "", selectedData |-> selection]
    ELSE [error |-> "",
          selectedData |->
              SelectionForKeys(entityDimensionMap, entityNameToIdMap, selectionData,
                               SelectSeq(keys, LAMBDA k : ~LookupKeyRaises(entityDimensionMap, k)))]

\* the setter without the test of isReady
SelectedKeysSetterUnguarded(isReady, entityDimensionMap, entityNameToIdMap, selectionData, selection, keys) ==
    IF \E i \in 1..Len(keys) : LookupKeyRaises(entityDimensionMap, keys[i])
    THEN [error |-> "Unknown data key", selectedData |-> selection]
    ELSE [error |-> "",
          selectedData |-> SelectionForKeys(entityDimensionMap, entityNameToIdMap,
                                            selectionData, keys)]

\* the setter of selectedKeys when props.selectedData is selection, given the
\* computed values it reads: the error it raises ("" for none) and the
\* persisted selection list after it
SelectedKeysSetterWith(isReady, entityDimensionMap, entityNameToIdMap, selectionData, selection, keys) ==
    IF ~isReady
    THEN [error |-> "", selectedData |-> selection]
    ELSE IF \E i \in 1..Len(keys) : LookupKeyRaises(entityDimensionMap, keys[i])
         THEN [error |-> "Unknown data key", selectedData |-> selection]
         ELSE [error |-> "",
               selectedData |-> SelectionForKeys(entityDimensionMap, entityNameToIdMap,
                                                 selectionData, keys)]

\* the setter of selectedKeys when props.selectedData is selection
SelectedKeysSetter(selection, keys) ==
    SelectedKeysSetterWith(IsReady, EntityDimensionMap, EntityNameToIdMap(table),
                           SelectionDataOf(selection), selection, keys)

\* chart.data.selectedKeys = keys
SetSelectedKeys(keys) ==
    /\ \E outcome \in {SelectedKeysSetter(selectedData, keys)} :
           /\ selectedData' = outcome.selectedData
           /\ error' = outcome.error
    /\ lastOp' = "setSelectedKeys"
    /\ UNCHANGED <<args, result>>
    /\ UNCHANGED <<isNode, type, dimensions, addCountryMode, minPopulationFilter,
                   table, variableIdsValue, fetchLog, pending>>

\* setKeyColor colouring every entry of the key's entity
SetKeyColorOfEntity(entityDimensionMap, selection, key, color) ==
    IF LookupKeyRaises(entityDimensionMap, key)
    THEN [error |-> "Unknown data key", selectedData |-> selection]
    ELSE [error |-> "",
          selectedData |->
              Eager([i \in 1..Len(selection) |->
                  IF selection[i].entityId = LookupKey(entityDimensionMap, key).entityId
                  THEN [selection[i] EXCEPT !.color = color]
                  ELSE selection[i]])]

\* ChartData.setKeyColor(key, color), given entityDimensionMap: the error it
\* raises ("" for none) and the persisted selection list after it
SetKeyColorWith(entityDimensionMap, selection, key, color) ==
    IF LookupKeyRaises(entityDimensionMap, key)
    THEN [error |-> "Unknown data key", selectedData |-> selection]
    ELSE [error |-> "",
          selectedData |->
              Eager([i \in 1..Len(selection) |->
                  IF /\ selection[i].entityId = LookupKey(entityDimensionMap, key).entityId
                     /\ selection[i].index = LookupKey(entityDimensionMap, key).index
                  THEN [selection[i] EXCEPT !.color = color]
                  ELSE selection[i]])]

\* chart.data.setKeyColor(key, color)
SetKeyColor(key, color) ==
    /\ \E outcome \in {SetKeyColorWith(EntityDimensionMap, selectedData, key, color)} :
           /\ selectedData' = outcome.selectedData
           /\ error' = outcome.error
    /\ lastOp' = "setKeyColor"
    /\ UNCHANGED <<args, result>>
    /\ UNCHANGED <<isNode, type, dimensions, addCountryMode, minPopulationFilter,
                   table, variableIdsValue, fetchLog, pending>>

\* chart.props.addCountryMode = mode
SetAddCountryMode(mode) ==
    /\ addCountryMode' = mode
    /\ error' = ""
    /\ lastOp' = "setAddCountryMode"
    /\ UNCHANGED <<args, result>>
    /\ UNCHANGED <<isNode, type, dimensions, selectedData, minPopulationFilter,
                   table, variableIdsValue, fetchLog, pending>>

\* an observer reads a derived value of the chart: every column accessor
\* goes through table.unfilteredRows, which caches the filter results
ReadDerived ==
    /\ table' = AfterReadUnfilteredRows(table)
    /\ error' = ""
    /\ lastOp' = "read"
    /\ UNCHANGED <<args, result>>
    /\ UNCHANGED <<isNode, type, dimensions, selectedData, addCountryMode,
                   minPopulationFilter, variableIdsValue, fetchLog, pending>>

(***************************************************************************)
(* The chart session: construction, configuration edits, data arrival.     *)
(***************************************************************************)
\* the keys assigned to selectedKeys
KeyUniverse == {"A_0", "B_0", "B_1"}

KeyLists == SeqsUpTo(KeyUniverse, MaxKeys)

\* the state after new ChartConfig(props)
InitWith(node, chartType, dims, sel, mode, minPop) ==
    LET c == Constructed(dims, node, chartType)
    IN /\ isNode = node
       /\ type = chartType
       /\ dimensions = c.dimensions
       /\ selectedData = sel
       /\ addCountryMode = mode
       /\ minPopulationFilter = minPop
       /\ table = EmptyTable
       /\ variableIdsValue = c.reaction.value
       /\ fetchLog = c.reaction.log
       /\ pending = c.reaction.pending
       /\ error = ""
       /\ lastOp = "new"
       /\ args = NoCall
       /\ result = NoCall

Init ==
    \E node \in BOOLEAN, chartType \in {"LineChart", "ScatterPlot"}, dims \in DimensionLists :
        InitWith(node, chartType, dims, <<>>, "add-country", 0)

Next ==
    \/ \E dims \in DimensionLists : SetDimensions(dims)
    \/ \E ids \in pending : FetchResolve(ids)
    \/ \E ids \in pending : FetchReject(ids)
    \/ ResaveReceiveData
    \/ \E keys \in {<<>>, <<"B_0">>} : SetSelectedKeys(keys)

Spec == Init /\ [][Next]_vars

(***************************************************************************)
(* The dimensions are edited while requests are in flight, and every       *)
(* request resolves.                                                       *)
(***************************************************************************)
RaceNext ==
    \/ \E dims \in DimensionLists : SetDimensions(dims)
    \/ \E ids \in pending : FetchResolve(ids)

RaceSpec == Init /\ [][RaceNext]_vars

(***************************************************************************)
(* The population filter: a chart whose data arrives and whose             *)
(* minPopulationFilter is edited.                                          *)
(***************************************************************************)
PopInit ==
    \E node \in BOOLEAN, chartType \in {"LineChart", "ScatterPlot"},
       dims \in {<<DimY5>>, <<DimY2>>, <<DimY5, DimY2>>, <<DimY5, DimX2>>}, minPop \in MinPopulations :
        InitWith(node, chartType, dims, <<>>, "add-country", minPop)

PopNext ==
    \/ \E minPop \in MinPopulations : SetMinPopulationFilter(minPop)
    \/ \E ids \in pending : FetchResolve(ids)
    \/ ResaveReceiveData
    \/ ReadDerived

PopSpec == PopInit /\ [][PopNext]_vars

(***************************************************************************)
(* Selection: a chart loaded with a persisted selection list, with or      *)
(* without its data, whose selection is read and written.                  *)
(***************************************************************************)
SelectionLists == SeqsUpTo(SelectionEntries, MaxSel)

\* the dimension list and the variables received of the charts considered
SelCharts ==
    {[dims |-> <<DimY5>>, received |-> {}, minPop |-> 0],
     [dims |-> <<DimY5>>, received |-> {5}, minPop |-> 0],
     [dims |-> <<DimY5, DimY2>>, received |-> {2, 5}, minPop |-> 0],
     [dims |-> <<DimY5, DimY2>>, received |-> {2, 5}, minPop |-> 5],
     [dims |-> <<DimY5, DimY2>>, received |-> {5}, minPop |-> 0],
     [dims |-> <<DimY5, DimY2>>, received |-> {2}, minPop |-> 0]}

SelInit ==
    \E c \in SelCharts, sel \in SelectionLists, mode \in {"add-country", "change-country"} :
        /\ isNode = FALSE
        /\ type = "LineChart"
        /\ dimensions = c.dims
        /\ selectedData = sel
        /\ addCountryMode = mode
        /\ minPopulationFilter = c.minPop
        /\ table = IF c.received = {} THEN EmptyTable ELSE ReceiveData(c.received, c.minPop)
        /\ variableIdsValue = VariableIds(c.dims)
        /\ fetchLog = <<VariableIds(c.dims)>>
        /\ pending = {}
        /\ error = ""
        /\ lastOp = "new"
        /\ args = NoCall
        /\ result = NoCall

SelNext ==
    \/ \E keys \in KeyLists : SetSelectedKeys(keys)
    \/ \E mode \in {"add-country", "change-country"} : SetAddCountryMode(mode)

SelSpec == SelInit /\ [][SelNext]_vars

(***************************************************************************)
(* The keys of the selection: charts whose selection is assigned and        *)
(* colored by key.                                                         *)
(***************************************************************************)
\* the type, the dimension list, the variables received and the population
\* filter of the charts considered
KeyCharts ==
    {[type |-> "LineChart", dims |-> <<DimY5>>, received |-> {}, minPop |-> 0],
     [type |-> "LineChart", dims |-> <<DimY5>>, received |-> {5}, minPop |-> 0],
     [type |-> "LineChart", dims |-> <<DimY5, DimY5>>, received |-> {5}, minPop |-> 0],
     [type |-> "LineChart", dims |-> <<DimY5, DimY2>>, received |-> {2, 5}, minPop |-> 0],
     [type |-> "LineChart", dims |-> <<DimY5, DimY2>>, received |-> {2, 5}, minPop |-> 5],
     [type |-> "ScatterPlot", dims |-> <<DimY5, DimX2>>, received |-> {2, 5}, minPop |-> 0],
     [type |-> "ScatterPlot", dims |-> <<DimX5, DimY2>>, received |-> {2, 5}, minPop |-> 0]}

KeyInit ==
    \E c \in KeyCharts, sel \in SelectionLists, mode \in {"add-country", "change-country"} :
        /\ isNode = FALSE
        /\ type = c.type
        /\ dimensions = c.dims
        /\ selectedData = sel
        /\ addCountryMode = mode
        /\ minPopulationFilter = c.minPop
        /\ table = IF c.received = {} THEN EmptyTable ELSE ReceiveData(c.received, c.minPop)
        /\ variableIdsValue = VariableIds(c.dims)
        /\ fetchLog = <<VariableIds(c.dims)>>
        /\ pending = {}
        /\ error = ""
        /\ lastOp = "new"
        /\ args = NoCall
        /\ result = NoCall

\* the key lists assigned to selectedKeys
KeyAssignments == {<<>>, <<"B_0">>, <<"A_0", "B_1">>, <<"B_1", "B_0">>}

KeyNext ==
    \/ \E keys \in KeyAssignments : SetSelectedKeys(keys)
    \/ \E key \in KeyUniverse, color \in Colors : SetKeyColor(key, color)
    \/ \E mode \in {"add-country", "change-country"} : SetAddCountryMode(mode)

KeySpec == KeyInit /\ [][KeyNext]_vars

(***************************************************************************)
(* Keys are selected one at a time.                                        *)
(***************************************************************************)
\* a toggleKey that adds the key whether it is selected or not
ToggledKeysAlwaysAdded(selectedKeys, key) == selectedKeys \o <<key>>

\* a toggleKey that puts a key it adds in front of the selected keys
ToggledKeysAtFront(selectedKeys, key) ==
    IF key \in Range(selectedKeys)
    THEN SelectSeq(selectedKeys, LAMBDA k : k # key)
    ELSE <<key>> \o selectedKeys

\* the list toggleKey assigns to selectedKeys
ToggledKeys(selectedKeys, key) ==
    IF key \in Range(selectedKeys)
    THEN SelectSeq(selectedKeys, LAMBDA k : k # key)
    ELSE selectedKeys \o <<key>>

\* chart.data.toggleKey(key)
ToggleKey(key) ==
    /\ \E selectedKeys \in {SelectedKeys} :
           \E outcome \in {SelectedKeysSetter(selectedData, ToggledKeys(selectedKeys, key))} :
               /\ selectedData' = outcome.selectedData
               /\ error' = outcome.error
    /\ lastOp' = "toggleKey"
    /\ UNCHANGED <<args, result>>
    /\ UNCHANGED <<isNode, type, dimensions, addCountryMode, minPopulationFilter,
                   table, variableIdsValue, fetchLog, pending>>

\* chart.data.selectEntityDimensionKey(key)
SelectEntityDimensionKey(key) ==
    /\ \E selectedKeys \in {SelectedKeys} :
           \E outcome \in {SelectedKeysSetter(selectedData, selectedKeys \o <<key>>)} :
               /\ selectedData' = outcome.selectedData
               /\ error' = outcome.error
    /\ lastOp' = "selectEntityDimensionKey"
    /\ UNCHANGED <<args, result>>
    /\ UNCHANGED <<isNode, type, dimensions, addCountryMode, minPopulationFilter,
                   table, variableIdsValue, fetchLog, pending>>

ToggleNext ==
    \/ \E keys \in KeyAssignments : SetSelectedKeys(keys)
    \/ \E key \in KeyUniverse : ToggleKey(key)
    \/ \E key \in KeyUniverse : SelectEntityDimensionKey(key)

ToggleSpec == KeyInit /\ [][ToggleNext]_vars

(***************************************************************************)
(* A chart loaded with a persisted selection whose dimensions, data,       *)
(* population filter and selection change.                                 *)
(***************************************************************************)
\* the persisted selection lists of the charts considered
LifeSelections ==
    {<<>>,
     <<[entityId |-> 1, index |-> 0, color |-> "red"], [entityId |-> 2, index |-> 1, color |-> NoColor]>>,
     <<[entityId |-> 2, index |-> 0, color |-> NoColor], [entityId |-> 3, index |-> 0, color |-> NoColor]>>,
     <<[entityId |-> 2, index |-> 1, color |-> "red"], [entityId |-> 1, index |-> 0, color |-> NoColor]>>}

\* the dimension lists the charts are given
LifeDimensionLists == {<<DimY5>>, <<DimY5, DimY2>>, <<DimX5, DimY2>>}

LifeInit ==
    \E chartType \in {"LineChart", "ScatterPlot"}, sel \in LifeSelections,
       mode \in {"add-country", "change-country"} :
        InitWith(FALSE, chartType, <<DimY5, DimY2>>, sel, mode, 0)

LifeNext ==
    \/ \E dims \in LifeDimensionLists : SetDimensions(dims)
    \/ \E ids \in pending : FetchResolve(ids)
    \/ \E minPop \in {0, 5} : SetMinPopulationFilter(minPop)
    \/ \E keys \in KeyAssignments : SetSelectedKeys(keys)

LifeSpec == LifeInit /\ [][LifeNext]_vars

(***************************************************************************)
(* The dimension list and the chart type are edited.                       *)
(***************************************************************************)
DimSize2 == [property |-> "size", variableId |-> 2, display |-> "-"]

DimColor5 == [property |-> "color", variableId |-> 5, display |-> "-"]

\* the dimension lists the editor assigns
SlotDimensionLists ==
    {<<DimY5, DimY2>>, <<DimX5, DimY2, DimX2>>, <<DimSize2, DimY5, DimColor5, DimY2>>,
     <<DimColor5, DimX2, DimY2, DimSize2>>, <<DimX2, DimY5, DimY5, DimX5>>}

ChartTypes == {"LineChart", "ScatterPlot", "TimeScatter", "SlopeChart"}

\* chart.props.type = chartType, followed by the autorun of ensureValidConfig
\* and the reaction on variableIds
SetType(chartType) ==
    LET a == AssignDimensions([value |-> variableIdsValue, log |-> fetchLog, pending |-> pending],
                              dimensions, isNode, chartType)
    IN /\ Len(a.reaction.log) <= MaxFetch
       /\ type' = chartType
       /\ dimensions' = a.dimensions
       /\ variableIdsValue' = a.reaction.value
       /\ fetchLog' = a.reaction.log
       /\ pending' = a.reaction.pending
       /\ error' = ""
       /\ lastOp' = "setType"
       /\ UNCHANGED <<args, result>>
       /\ UNCHANGED <<isNode, selectedData, addCountryMode, minPopulationFilter, table>>

DimInit ==
    \E node \in BOOLEAN, chartType \in ChartTypes, dims \in SlotDimensionLists :
        InitWith(node, chartType, dims, <<>>, "add-country", 0)

DimNext ==
    \/ \E dims \in SlotDimensionLists : SetDimensions(dims)
    \/ \E chartType \in ChartTypes : SetType(chartType)

DimSpec == DimInit /\ [][DimNext]_vars

(***************************************************************************)
(* update(json): a configuration is merged into the chart.                 *)
(***************************************************************************)
\* json[key] when key is a key of json, and the current value otherwise
FieldOf(json, key, current) == IF key \in DOMAIN json THEN json[key] ELSE current

\* chart.update(json): the loop over the keys of props, the assignment of
\* props.dimensions from json.dimensions || [], and the reactions that run
\* when the action ends
Update(json) ==
    LET dims == IF "dimensions" \in DOMAIN json THEN json["dimensions"] ELSE <<>>
        chartType == FieldOf(json, "type", type)
        minPop == FieldOf(json, "minPopulationFilter", minPopulationFilter)
        a == AssignDimensions([value |-> variableIdsValue, log |-> fetchLog, pending |-> pending],
                              dims, isNode, chartType)
    IN /\ Len(a.reaction.log) <= MaxFetch
       /\ type' = chartType
       /\ selectedData' = FieldOf(json, "selectedData", selectedData)
       /\ addCountryMode' = FieldOf(json, "addCountryMode", addCountryMode)
       /\ minPopulationFilter' = minPop
       /\ table' = IF minPop # minPopulationFilter THEN UpdatePopulationFilter(table, minPop) ELSE table
       /\ dimensions' = a.dimensions
       /\ variableIdsValue' = a.reaction.value
       /\ fetchLog' = a.reaction.log
       /\ pending' = a.reaction.pending
       /\ error' = ""
       /\ lastOp' = "update"
       /\ args' = <<json>>
       /\ UNCHANGED <<isNode, result>>

\* the configurations passed to update
Jsons ==
    {[title |-> "t"],
     [dimensions |-> <<DimY2>>],
     [dimensions |-> <<DimY5, DimY2>>, selectedData |-> <<>>],
     [selectedData |-> <<[entityId |-> 1, index |-> 0, color |-> "red"]>>],
     [addCountryMode |-> "change-country"],
     [minPopulationFilter |-> 5, dimensions |-> <<DimY5>>],
     [type |-> "ScatterPlot", dimensions |-> <<DimY5, DimX2>>]}

UpdateNext ==
    \/ \E json \in Jsons : Update(json)
    \/ \E ids \in pending : FetchResolve(ids)

UpdateSpec == Init /\ [][UpdateNext]_vars

(***************************************************************************)
(* Entities are selected by code.                                          *)
(***************************************************************************)
\* ChartConfig.canChangeEntity
CanChangeEntity ==
    /\ type # "ScatterPlot"
    /\ AddCountryMode = "change-country"
    /\ Cardinality(AvailableEntities) > 1

\* the keys one entity name and one digit make, in the order of sortBy
KeysInOrder ==
    FlattenSeqs([n \in 1..3 |->
                    [i \in 1..10 |-> MakeEntityDimensionKey(<<"A", "B", "C">>[n], i - 1)]])

\* ChartData.setSelectedEntity(entityId): the list it assigns
SetSelectedEntityOf(selection, entityId) ==
    [i \in 1..Len(selection) |-> [selection[i] EXCEPT !.entityId = entityId]]

\* the codes a key of the key index answers to in setSelectedEntitiesByCode
CodesOfKeyIn(entityDimensionMap, nameToCode, key) ==
    {entityDimensionMap[key].shortCode,
     nameToCode[entityDimensionMap[key].entity],
     entityDimensionMap[key].entity}

CodesOfKey(key) == CodesOfKeyIn(EntityDimensionMap, EntityNameToCodeMap(table), key)

\* chart.data.setSelectedEntitiesByCode(entityCodes); result is the Map it
\* returns. On a chart that can change entity more than one entity can match
\* only when a name is another entity's code; the last match is then the
\* entity selected
SetSelectedEntitiesByCode(entityCodes) ==
    /\ \E entityDimensionMap \in {EntityDimensionMap}, nameToCode \in {EntityNameToCodeMap(table)} :
         \E codes \in {[key \in DOMAIN entityDimensionMap |->
                            CodesOfKeyIn(entityDimensionMap, nameToCode, key)]} :
           IF CanChangeEntity
           THEN \E matches \in {{name \in AvailableEntities :
                                    nameToCode[name] = entityCodes[1] \/ name = entityCodes[1]}} :
                    /\ result' = [code \in Range(entityCodes) |-> code = entityCodes[1] /\ matches # {}]
                    /\ error' = ""
                    /\ IF matches = {}
                       THEN selectedData' = selectedData
                       ELSE \E name \in matches :
                                selectedData' = SetSelectedEntityOf(selectedData,
                                                                    EntityNameToIdMap(table)[name])
           ELSE \E keys \in {SelectSeq(KeysInOrder,
                                       LAMBDA key : /\ key \in DOMAIN codes
                                                    /\ codes[key] \cap Range(entityCodes) # {})} :
                  \E outcome \in {SelectedKeysSetter(selectedData, keys)} :
                    /\ result' = [code \in Range(entityCodes) |->
                                     \E key \in DOMAIN codes : code \in codes[key]]
                    /\ selectedData' = outcome.selectedData
                    /\ error' = outcome.error
    /\ args' = <<entityCodes>>
    /\ lastOp' = "setSelectedEntitiesByCode"
    /\ UNCHANGED <<isNode, type, dimensions, addCountryMode, minPopulationFilter,
                   table, variableIdsValue, fetchLog, pending>>

\* the code lists entities are selected by
CodeLists == {<<"AA">>, <<"BB", "A">>, <<"BB-1">>, <<"ZZ", "AA">>}

ByCodeNext ==
    \/ \E entityCodes \in CodeLists : SetSelectedEntitiesByCode(entityCodes)
    \/ \E keys \in {<<>>} : SetSelectedKeys(keys)

ByCodeSpec == KeyInit /\ [][ByCodeNext]_vars

(***************************************************************************)
(* makeEntityDimensionKey on its own.                                      *)
(***************************************************************************)
\* entity names, some with underscores and digits
KeyEntityNames == {"A", "A_1", "A_1_0", "A_", "_", "1", "1_1", "", "B_0", "B"}

\* dimension indexes
KeyDimensionIndexes == 0..MaxIndex

\* chart.data.makeEntityDimensionKey(entityName, dimensionIndex)
MakeKey(entityName, dimensionIndex) ==
    /\ args' = <<entityName, dimensionIndex>>
    /\ result' = MakeEntityDimensionKey(entityName, dimensionIndex)
    /\ error' = ""
    /\ lastOp' = "makeEntityDimensionKey"
    /\ UNCHANGED <<isNode, type, dimensions, selectedData, addCountryMode,
                   minPopulationFilter, table, variableIdsValue, fetchLog, pending>>

MakeKeyInit == InitWith(FALSE, "LineChart", <<>>, <<>>, "add-country", 0)

MakeKeyNext ==
    \E entityName \in KeyEntityNames, dimensionIndex \in KeyDimensionIndexes :
        MakeKey(entityName, dimensionIndex)

MakeKeySpec == MakeKeyInit /\ [][MakeKeyNext]_vars

(***************************************************************************)
(* Ingestion: a chart that is given the data of any set of variables.       *)
(***************************************************************************)
\* chart.receiveData(json), json holding the variables ids
ReceiveJson(ids) ==
    /\ table' = ReceiveData(ids, minPopulationFilter)
    /\ args' = ids
    /\ result' = NoCall
    /\ error' = ""
    /\ lastOp' = "receiveJson"
    /\ UNCHANGED <<isNode, type, dimensions, selectedData, addCountryMode,
                   minPopulationFilter, variableIdsValue, fetchLog, pending>>

LegacyInit == InitWith(TRUE, "LineChart", <<>>, <<>>, "add-country", 0)

LegacyNext == \E ids \in SUBSET VarIds : ReceiveJson(ids)

LegacySpec == LegacyInit /\ [][LegacyNext]_vars

(***************************************************************************)
(* Export: the table a chart was given is written as delimited text.       *)
(***************************************************************************)
\* chart.table.toDelimited()
CallToDelimited ==
    /\ lastOp = "receiveJson"
    /\ result' = ToDelimited(table, ",", 0)
    /\ error' = ""
    /\ lastOp' = "toDelimited"
    /\ UNCHANGED <<args, table>>
    /\ UNCHANGED <<isNode, type, dimensions, selectedData, addCountryMode,
                   minPopulationFilter, variableIdsValue, fetchLog, pending>>

DelimitedNext ==
    \/ \E ids \in SUBSET VarIds : ReceiveJson(ids)
    \/ CallToDelimited

DelimitedSpec == LegacyInit /\ [][DelimitedNext]_vars

(***************************************************************************)
(* The table on its own: filter columns are registered and deleted, rows   *)
(* are appended, the visible rows are read.                                *)
(***************************************************************************)
\* the predicates filter columns are registered with
Predicates == {[kind |-> "yearGE", n |-> 2001], [kind |-> "idLE", n |-> 1], [kind |-> "idLE", n |-> 2]}

\* the slugs filter columns are registered under
FilterSlugs == {"f1", "f2"}

\* the rows appended to a table
AppendedRows ==
    {("year" :> 2002) @@ ("5-gdp" :> 11) @@ [entityName |-> "A", entityId |-> 1, entityCode |-> "AA"],
     ("year" :> 1999) @@ ("5-gdp" :> 30) @@ [entityName |-> "C", entityId |-> 3, entityCode |-> "CC"]}

\* table.addFilterColumn(slug, predicate)
TableAddFilterColumn(slug, predicate) ==
    /\ table' = AddFilterColumn(table, slug, predicate)
    /\ error' = ""
    /\ lastOp' = "addFilterColumn"
    /\ UNCHANGED <<args, result>>
    /\ UNCHANGED <<isNode, type, dimensions, selectedData, addCountryMode,
                   minPopulationFilter, variableIdsValue, fetchLog, pending>>

\* table.deleteColumnBySlug(slug), for a column the table has
TableDeleteColumnBySlug(slug) ==
    /\ ColumnsHas(table.columns, slug)
    /\ table' = DeleteColumnBySlug(table, slug)
    /\ error' = ""
    /\ lastOp' = "deleteColumnBySlug"
    /\ UNCHANGED <<args, result>>
    /\ UNCHANGED <<isNode, type, dimensions, selectedData, addCountryMode,
                   minPopulationFilter, variableIdsValue, fetchLog, pending>>

\* table.addRowsAndDetectColumns([row])
TableAddRows(row) ==
    /\ Len(table.rows) < MaxRows
    /\ table' = AddRowsAndDetectColumns(table, <<row>>)
    /\ error' = ""
    /\ lastOp' = "addRowsAndDetectColumns"
    /\ UNCHANGED <<args, result>>
    /\ UNCHANGED <<isNode, type, dimensions, selectedData, addCountryMode,
                   minPopulationFilter, variableIdsValue, fetchLog, pending>>

TableInit ==
    \E ids \in {{5}, {2, 5}} :
        /\ isNode = TRUE
        /\ type = "LineChart"
        /\ dimensions = <<>>
        /\ selectedData = <<>>
        /\ addCountryMode = "add-country"
        /\ minPopulationFilter = 0
        /\ table = FromLegacy(ids)
        /\ variableIdsValue = <<>>
        /\ fetchLog = <<<<>>>>
        /\ pending = {}
        /\ error = ""
        /\ lastOp = "fromLegacy"
        /\ args = NoCall
        /\ result = NoCall

TableNext ==
    \/ \E slug \in FilterSlugs, predicate \in Predicates : TableAddFilterColumn(slug, predicate)
    \/ \E slug \in FilterSlugs : TableDeleteColumnBySlug(slug)
    \/ \E row \in AppendedRows : TableAddRows(row)
    \/ ReadDerived

TableSpec == TableInit /\ [][TableNext]_vars

(***************************************************************************)
(* Smoothing on its own: a sequence is smoothed, the gaps of a series are  *)
(* filled, a table is given a rolling average column.                      *)
(***************************************************************************)
\* the entries of the sequences that are smoothed
RollValues == {Undefined, Null, Num(-1), Num(1), Num(2)}

\* the values observed in a series
SeriesValues == {Num(2), Num(-3), Num(10)}

\* the times of the observations
SeriesTimes == 0..MaxNumbers

\* rows sorted by entity, and by day within an entity: A has its cases on
\* daysA, B on daysB
GroupedRows(daysA, daysB) ==
    LET a == SortedSeq(daysA)
        b == SortedSeq(daysB)
    IN [k \in 1..Len(a) |->
           ("day" :> a[k]) @@ ("7-cases" :> 2 * a[k] + 1) @@
           [entityName |-> "A", entityId |-> 1, entityCode |-> "AA"]]
       \o [k \in 1..Len(b) |->
           ("day" :> b[k]) @@ ("7-cases" :> 10 - 3 * b[k]) @@
           [entityName |-> "B", entityId |-> 2, entityCode |-> "BB"]]

\* the call whose arguments the variable args holds
Call(fn, numbers, years, windowSize, align) ==
    [fn |-> fn, numbers |-> numbers, years |-> years, windowSize |-> windowSize, align |-> align]

\* computeRollingAverage(numbers, windowSize, align)
CallComputeRollingAverage ==
    /\ lastOp = "init"
    /\ args.fn = "computeRollingAverage"
    /\ result' = ComputeRollingAverage(args.numbers, args.windowSize, args.align)
    /\ lastOp' = "computeRollingAverage"
    /\ UNCHANGED <<args, table, error>>
    /\ UNCHANGED <<isNode, type, dimensions, selectedData, addCountryMode,
                   minPopulationFilter, variableIdsValue, fetchLog, pending>>

\* insertMissingValuePlaceholders(values, years)
CallInsertMissingValuePlaceholders ==
    /\ lastOp = "init"
    /\ args.fn = "insertMissingValuePlaceholders"
    /\ result' = InsertMissingValuePlaceholders(args.numbers, args.years)
    /\ lastOp' = "insertMissingValuePlaceholders"
    /\ UNCHANGED <<args, table, error>>
    /\ UNCHANGED <<isNode, type, dimensions, selectedData, addCountryMode,
                   minPopulationFilter, variableIdsValue, fetchLog, pending>>

\* table.addRollingAverageColumn({slug: "cases_avg"}, windowSize,
\* row => row["7-cases"], "day", "entityName")
CallAddRollingAverageColumn ==
    /\ lastOp = "init"
    /\ args.fn = "addRollingAverageColumn"
    /\ table' = AddRollingAverageColumn(table, ColumnSpec("cases_avg"), args.windowSize,
                                        "7-cases", "day", "entityName")
    /\ lastOp' = "addRollingAverageColumn"
    /\ UNCHANGED <<args, result, error>>
    /\ UNCHANGED <<isNode, type, dimensions, selectedData, addCountryMode,
                   minPopulationFilter, variableIdsValue, fetchLog, pending>>

\* the state before a call: its arguments, and the table it is made on
SmoothInitWith(call, t) ==
    /\ isNode = TRUE
    /\ type = "LineChart"
    /\ dimensions = <<>>
    /\ selectedData = <<>>
    /\ addCountryMode = "add-country"
    /\ minPopulationFilter = 0
    /\ table = t
    /\ variableIdsValue = <<>>
    /\ fetchLog = <<<<>>>>
    /\ pending = {}
    /\ error = ""
    /\ lastOp = "init"
    /\ args = call
    /\ result = NoCall

SmoothInit ==
    \/ \E numbers \in SeqsUpTo(RollValues, MaxNumbers), windowSize \in 1..MaxWindow,
          align \in {"right", "center"} :
           SmoothInitWith(Call("computeRollingAverage", numbers, <<>>, windowSize, align), EmptyTable)
    \/ \E times \in SUBSET SeriesTimes :
           \E values \in [1..Cardinality(times) -> SeriesValues] :
               SmoothInitWith(Call("insertMissingValuePlaceholders", values, SortedSeq(times),
                                   1, "right"), EmptyTable)
    \/ \E daysA \in SUBSET (0..MaxWindow), daysB \in SUBSET (0..MaxWindow),
          windowSize \in 1..MaxWindow :
           /\ Cardinality(daysA) + Cardinality(daysB) \in 1..MaxRows
           /\ SmoothInitWith(Call("addRollingAverageColumn", <<>>, <<>>, windowSize, "right"),
                             DetectAndAddColumnsFromRows(NewTable(GroupedRows(daysA, daysB), <<>>)))

SmoothNext ==
    \/ CallComputeRollingAverage
    \/ CallInsertMissingValuePlaceholders
    \/ CallAddRollingAverageColumn

SmoothSpec == SmoothInit /\ [][SmoothNext]_vars

(***************************************************************************)
(* The table and the views computed from it, read by an observer: a        *)
(* @computed value is recomputed at a read when something it has read and  *)
(* mobx observes was changed since the last read. Observed are the         *)
(* reference this.rows (@observable.ref) and the registry this.columns     *)
(* (@observable Map); the fields of a row are not. The variable result     *)
(* holds the values the last reads have left.                              *)
(***************************************************************************)
\* what the accessors values, entityNames, years and entityMap of the column
\* registered under slug compute from the rows unfilteredRows returns
ColumnView(unfilteredRows, slug) ==
    LET rows == SelectSeq(unfilteredRows, LAMBDA row : Has(row, slug))
        names == {rows[i]["entityName"] : i \in 1..Len(rows)}
    IN [values |-> [i \in 1..Len(rows) |-> rows[i][slug]],
        entityNames |-> [i \in 1..Len(rows) |-> rows[i]["entityName"]],
        years |-> [i \in 1..Len(rows) |->
                      IF Has(rows[i], "year") THEN rows[i]["year"] ELSE rows[i]["day"]],
        entityMap |-> [name \in names |->
                          rows[CHOOSE i \in 1..Len(rows) :
                                   /\ rows[i]["entityName"] = name
                                   /\ \A j \in 1..Len(rows) :
                                          rows[j]["entityName"] = name => j <= i][slug]]]

\* the slugs of the registry
ColumnSlugs(t) == {t.columns[i].slug : i \in 1..Len(t.columns)}

\* nothing has been read yet: unfilteredRows is the positions, in the row
\* store, of the rows the last read of unfilteredRows returned; views holds
\* the view of each column object that has been read
EmptyCache == [unfilteredRows |-> None, views |-> [slug \in {} |-> 0]]

\* after this.columns.set(slug, new columnType(...)) on the table that is now
\* t: unfilteredRows recomputes; it returns this.rows itself when no filter
\* column is registered, and then the other columns keep what they have
\* computed; the column under slug is a new object
CacheAfterColumnsSet(cache, t, slug) ==
    [unfilteredRows |-> None,
     views |-> IF Len(FilterColumnSlugs(t)) > 0 THEN EmptyCache.views
               ELSE [s \in (DOMAIN cache.views) \ {slug} |-> cache.views[s]]]

\* the positions of the rows unfilteredRows returns when it is computed
UnfilteredPositions(t) ==
    IF Len(FilterColumnSlugs(t)) > 0 THEN PassingPositions(t)
    ELSE [i \in 1..Len(t.rows) |-> i]

\* table.addComputedColumn(spec)
ViewAddComputedColumn(spec) ==
    /\ table' = AddComputedColumn(table, spec)
    /\ result' = CacheAfterColumnsSet(result, table', spec.slug)
    /\ args' = <<spec>>
    /\ error' = ""
    /\ lastOp' = "addComputedColumn"
    /\ UNCHANGED <<isNode, type, dimensions, selectedData, addCountryMode,
                   minPopulationFilter, variableIdsValue, fetchLog, pending>>

\* table.addFilterColumn(slug, predicate)
ViewAddFilterColumn(slug, predicate) ==
    /\ table' = AddFilterColumn(table, slug, predicate)
    /\ result' = CacheAfterColumnsSet(result, table', slug)
    /\ args' = NoCall
    /\ error' = ""
    /\ lastOp' = "addFilterColumn"
    /\ UNCHANGED <<isNode, type, dimensions, selectedData, addCountryMode,
                   minPopulationFilter, variableIdsValue, fetchLog, pending>>

\* table.deleteColumnBySlug(slug), for a column the table has: it assigns
\* nothing that is observed
ViewDeleteColumnBySlug(slug) ==
    /\ ColumnsHas(table.columns, slug)
    /\ table' = DeleteColumnBySlug(table, slug)
    /\ args' = NoCall
    /\ error' = ""
    /\ lastOp' = "deleteColumnBySlug"
    /\ UNCHANGED <<result>>
    /\ UNCHANGED <<isNode, type, dimensions, selectedData, addCountryMode,
                   minPopulationFilter, variableIdsValue, fetchLog, pending>>

\* table.addRowsAndDetectColumns([row]): this.rows is assigned, so
\* unfilteredRows and, as it returns another array, every column recompute
ViewAddRows(row) ==
    /\ Len(table.rows) < MaxRows
    /\ table' = AddRowsAndDetectColumns(table, <<row>>)
    /\ result' = EmptyCache
    /\ args' = <<row>>
    /\ error' = ""
    /\ lastOp' = "addRowsAndDetectColumns"
    /\ UNCHANGED <<isNode, type, dimensions, selectedData, addCountryMode,
                   minPopulationFilter, variableIdsValue, fetchLog, pending>>

\* an observer reads table.unfilteredRows and, of every registered column,
\* values, entityNames, years and entityMap
ViewRead ==
    LET recompute == result.unfilteredRows = None
        t == IF recompute THEN AfterReadUnfilteredRows(table) ELSE table
        positions == IF recompute THEN UnfilteredPositions(table)
                     ELSE OrElse(result.unfilteredRows, <<>>)
        unfilteredRows == ElementsAt(t.rows, positions)
    IN /\ table' = t
       /\ result' = [unfilteredRows |-> Some(positions),
                     views |-> [slug \in ColumnSlugs(t) |->
                                   IF slug \in DOMAIN result.views THEN result.views[slug]
                                   ELSE ColumnView(unfilteredRows, slug)]]
       /\ args' = NoCall
       /\ error' = ""
       /\ lastOp' = "read"
       /\ UNCHANGED <<isNode, type, dimensions, selectedData, addCountryMode,
                      minPopulationFilter, variableIdsValue, fetchLog, pending>>

\* the functions computed columns are registered with
ComputedFns == {[kind |-> "idPlusIndex", n |-> 0], [kind |-> "idPlusIndex", n |-> 100]}

\* the columns deleteColumnBySlug is called on
DeletedSlugs == {"f1", "c1", "5-gdp"}

ViewInit ==
    /\ isNode = TRUE
    /\ type = "LineChart"
    /\ dimensions = <<>>
    /\ selectedData = <<>>
    /\ addCountryMode = "add-country"
    /\ minPopulationFilter = 0
    /\ table = FromLegacy({5})
    /\ variableIdsValue = <<>>
    /\ fetchLog = <<<<>>>>
    /\ pending = {}
    /\ error = ""
    /\ lastOp = "fromLegacy"
    /\ args = NoCall
    /\ result = EmptyCache

ViewNext ==
    \/ \E fn \in ComputedFns : ViewAddComputedColumn([ColumnSpec("c1") EXCEPT !.fn = fn])
    \/ \E predicate \in Predicates : ViewAddFilterColumn("f1", predicate)
    \/ \E slug \in DeletedSlugs : ViewDeleteColumnBySlug(slug)
    \/ \E row \in AppendedRows : ViewAddRows(row)
    \/ ViewRead

ViewSpec == ViewInit /\ [][ViewNext]_vars

(***************************************************************************)
(* The key index on its own: it is computed for tables whose entities have *)
(* a code of their own, share a code or have none.                         *)
(***************************************************************************)
\* the dimension lists of the charts whose key index is computed
CodeDimensionLists ==
    {<<DimY5>>, <<DimY5, DimY5>>, <<DimY5, DimY2>>, <<DimX5, DimY2, DimY5>>}

\* the entity codes of a table, "" for an entity without a code
EntityCodes == {"", "AA", "BB"}

\* chart.data.entityDimensionMap, read on a ready chart with the dimensions
\* args.dims in the mode args.mode, the table mapping the names to the codes
\* args.nameToCode
CallEntityDimensionMap ==
    /\ lastOp = "init"
    /\ \E prim \in {PrimaryDimensionsOf(table, args.dims)} :
           result' = EntityDimensionMapOf(TRUE, prim, PrimaryEntityNamesOf(table, prim),
                                          EntityNameToIdMap(table), args.nameToCode, args.mode,
                                          Len(prim) = 1, FALSE)
    /\ lastOp' = "entityDimensionMap"
    /\ UNCHANGED <<args, table, error>>
    /\ UNCHANGED <<isNode, type, dimensions, selectedData, addCountryMode,
                   minPopulationFilter, variableIdsValue, fetchLog, pending>>

CodeInit ==
    \E dims \in CodeDimensionLists, mode \in {"add-country", "change-country", "disabled"},
       nameToCode \in [EntityNames -> EntityCodes] :
        SmoothInitWith([dims |-> dims, mode |-> mode, nameToCode |-> nameToCode],
                       FromLegacy({2, 5}))

CodeNext == CallEntityDimensionMap

CodeSpec == CodeInit /\ [][CodeNext]_vars

(***************************************************************************)
(* Properties of the selection (SelSpec).                                  *)
(***************************************************************************)
\* entity entityId has a visible row with a value in column
HasDataIn(column, entityId) ==
    LET rows == UnfilteredRows(table)
    IN \E i \in 1..Len(rows) : Has(rows[i], column.slug) /\ rows[i]["entityId"] = entityId

\* the entry's index addresses an existing primary dimension and its
\* entityId an entity with data in that dimension's column
EntryAddressesData(e) ==
    LET prim == PrimaryDimensions
    IN /\ e.index + 1 \in 1..Len(prim)
       /\ HasDataIn(prim[e.index + 1].column, e.entityId)

\* the entry is counted by the read of the list L: it addresses data and, in
\* change-country mode, names the entity of the last entry of L
EntryKept(e, L) ==
    /\ EntryAddressesData(e)
    /\ addCountryMode = "change-country" => e.entityId = L[Len(L)].entityId

\* the positions a dimension can have in a dimension list
DimensionIndexes == {i - 1 : i \in UNION {DOMAIN dims : dims \in DimensionLists}}

\* the key of each pair (entityId, index)
PairKey ==
    Eager([p \in EntityIds \X DimensionIndexes |-> EntityKey[p[1]].name \o "_" \o ToString(p[2])])

EntryKey(e) == PairKey[<<e.entityId, e.index>>]

\* the pair (entityId, index) each key stands for
KeyPair ==
    Eager([key \in {PairKey[p] : p \in DOMAIN PairKey} |-> CHOOSE p \in DOMAIN PairKey : PairKey[p] = key])

\* the positions of the entries of L that a read of L counts
KeptPositions(L) == {i \in 1..Len(L) : EntryKept(L[i], L)}

NoDuplicates(s) == Cardinality(Range(s)) = Len(s)

\* C1 as stated: on a ready chart selectedKeys holds, once each, exactly the
\* keys of the persisted entries whose index addresses a primary dimension
\* and whose entity has data in that dimension's column
C1_AsStated ==
    IsReady =>
        LET keys == SelectedKeys
        IN /\ Range(keys) = {EntryKey(e) : e \in {e \in Range(selectedData) : EntryAddressesData(e)}}
           /\ NoDuplicates(keys)

\* C1 (amended): on a ready chart selectedKeys holds, once each, exactly the
\* keys of the persisted entries whose index addresses a primary dimension,
\* whose entity has data in that dimension's column and, when the chart is in
\* change-country mode, whose entityId is that of the last persisted entry
C1_SelectedKeysAreTheKeptEntries ==
    IsReady =>
        LET keys == SelectedKeys
        IN /\ Range(keys) = {EntryKey(selectedData[i]) : i \in KeptPositions(selectedData)}
           /\ NoDuplicates(keys)

\* a ready change-country chart whose list holds an entry that fails the
\* rule next to one that is read
C1_Witness ==
    /\ IsReady
    /\ addCountryMode = "change-country"
    /\ Len(selectedData) = 2
    /\ \E e \in Range(selectedData) : ~EntryAddressesData(e)
    /\ Len(SelectedKeys) = 1

\* the color the read of the list L gives a key, kept being the positions the
\* read counts: that of the first entry counted for the key, no color when
\* there is none
CarriedColor(L, kept, key) ==
    LET mine == {i \in kept : <<L[i].entityId, L[i].index>> = KeyPair[key]}
    IN IF mine = {} THEN NoColor ELSE L[Min(mine)].color

\* the colors (or the absence of one) the entries of L hold for a key
StoredColors(L, key) ==
    {L[i].color : i \in {i \in 1..Len(L) : <<L[i].entityId, L[i].index>> = KeyPair[key]}}

\* the lists of keys that are all in the key index
ListsOfIndexKeys == LET keyIndex == AvailableKeys IN {keys \in KeyLists : Range(keys) \subseteq keyIndex}

\* C2 as stated: on a ready chart, selectedKeys = K with K in the key index
\* stores one entry per key, in order, with the key's entityId and index and
\* the color stored for the key before (none if none was stored; any of them
\* if the list held the pair more than once)
C2_AsStated ==
    IsReady =>
        LET entityDimensionMap == EntityDimensionMap
            entityNameToIdMap == EntityNameToIdMap(table)
            selectionData == SelectionData
        IN \A keys \in ListsOfIndexKeys :
            LET out == SelectedKeysSetterWith(TRUE, entityDimensionMap, entityNameToIdMap,
                                              selectionData, selectedData, keys)
            IN /\ out.error = ""
               /\ Len(out.selectedData) = Len(keys)
               /\ \A i \in 1..Len(keys) :
                     /\ out.selectedData[i].entityId = KeyPair[keys[i]][1]
                     /\ out.selectedData[i].index = KeyPair[keys[i]][2]
                     /\ IF StoredColors(selectedData, keys[i]) = {}
                        THEN out.selectedData[i].color = NoColor
                        ELSE out.selectedData[i].color \in StoredColors(selectedData, keys[i])

\* C2 (amended): on a ready chart, selectedKeys = K with K in the key index
\* raises nothing and replaces the persisted list by one entry per key, in
\* order, with the key's entityId and index and the color the key had in the
\* selection as read before the assignment: the color of the first persisted
\* entry counted for the key, none if the key was not selected
C2_SetterStoresKeysWithCarriedColors ==
    IsReady =>
        LET kept == KeptPositions(selectedData)
            entityDimensionMap == EntityDimensionMap
            entityNameToIdMap == EntityNameToIdMap(table)
            selectionData == SelectionData
        IN \A keys \in ListsOfIndexKeys :
               SelectedKeysSetterWith(TRUE, entityDimensionMap, entityNameToIdMap,
                                      selectionData, selectedData, keys) =
                   [error |-> "",
                    selectedData |->
                        [i \in 1..Len(keys) |->
                            [entityId |-> KeyPair[keys[i]][1], index |-> KeyPair[keys[i]][2],
                             color |-> CarriedColor(selectedData, kept, keys[i])]]]

\* selectedKeys was assigned two keys of a ready chart, one of which carried
\* its color over
C2_Witness ==
    /\ lastOp = "setSelectedKeys"
    /\ error = ""
    /\ IsReady
    /\ Len(selectedData) = 2
    /\ selectedData[1].color = NoColor
    /\ selectedData[2].color = "red"

\* the list persisted after selectedKeys is read and assigned back, starting
\* from the persisted list L
ReadThenWrite(L) == SelectedKeysSetter(L, SelectedKeysOf(L)).selectedData

\* every entry of the persisted list is valid
OnlyValidEntries == \A e \in Range(selectedData) : EntryAddressesData(e)

\* the (entityId, index, color) triples of a list
Triples(L) == {<<L[i].entityId, L[i].index, L[i].color>> : i \in 1..Len(L)}

\* the pairs a read of L counts, each with the color of its first entry
KeptTriples(L) ==
    LET kept == KeptPositions(L)
    IN {<<L[i].entityId, L[i].index, CarriedColor(L, kept, EntryKey(L[i]))>> : i \in kept}

\* the (entityId, index) pairs of a list
Pairs(L) == {<<L[i].entityId, L[i].index>> : i \in 1..Len(L)}

\* C3 as stated: when the persisted list holds only valid entries, reading
\* selectedKeys and assigning it back keeps the set of pairs and the color of
\* each pair (one of its colors if the list held the pair more than once),
\* and doing so again changes nothing
C3_AsStated ==
    (IsReady /\ OnlyValidEntries) =>
        LET once == ReadThenWrite(selectedData)
        IN /\ Pairs(once) = Pairs(selectedData)
           /\ Triples(once) \subseteq Triples(selectedData)
           /\ ReadThenWrite(once) = once

\* C3 (amended): when the persisted list L holds only valid entries, reading
\* selectedKeys and assigning it back persists exactly the pairs of L (in
\* change-country mode only the pairs of the entity of L's last entry), each
\* once, with the color of the pair's first entry in L; doing so again
\* changes nothing
C3_ReadThenWriteKeepsKeptPairs ==
    (IsReady /\ OnlyValidEntries) =>
        LET once == ReadThenWrite(selectedData)
        IN /\ Triples(once) = KeptTriples(selectedData)
           /\ Cardinality(Triples(once)) = Len(once)
           /\ ReadThenWrite(once) = once

\* a ready chart whose valid two-entry list, one entry colored, is what the
\* assignment of its own selectedKeys persisted
C3_Witness ==
    /\ lastOp = "setSelectedKeys"
    /\ error = ""
    /\ IsReady
    /\ OnlyValidEntries
    /\ Len(selectedData) = 2
    /\ \E e \in Range(selectedData) : e.color = "red"
    /\ ReadThenWrite(selectedData) = selectedData

\* C5: while isReady is false, filledDimensions, entityDimensionMap,
\* availableKeys, selectedKeys, selectedEntities, selectedEntityCodes and
\* availableEntities are empty and reading them raises nothing
C5_NotReadyReadsAreEmpty ==
    ~IsReady =>
        /\ FilledDimensions = <<>>
        /\ DOMAIN EntityDimensionMap = {}
        /\ AvailableKeys = {}
        /\ SelectedKeys = <<>>
        /\ ~SelectedEntitiesRaises
        /\ SelectedEntities = <<>>
        /\ SelectedEntityCodes = <<>>
        /\ AvailableEntities = {}

\* a chart that is not ready although its table holds rows and its
\* persisted list holds entries
C5_Witness ==
    /\ ~IsReady
    /\ Len(table.rows) > 0
    /\ Len(selectedData) = 2
    /\ \E e \in Range(selectedData) : e.index = 0 /\ e.entityId = 2

(***************************************************************************)
(* Properties of the binding of dimensions to columns (Spec).              *)
(***************************************************************************)
\* C4: when isReady is true, filledDimensions has one element per configured
\* dimension and the i-th is bound to a column whose owidVariableId is the
\* variableId of the i-th configured dimension
C4_ReadyBindsEveryDimensionToItsVariable ==
    IsReady =>
        LET filled == FilledDimensions
        IN /\ Len(filled) = Len(dimensions)
           /\ \A i \in 1..Len(dimensions) :
                 filled[i].column.owidVariableId = Some(dimensions[i].variableId)

(***************************************************************************)
(* Properties of the table (TableSpec).                                    *)
(***************************************************************************)
\* the registered columns that are filter columns
FilterSpecs(t) == {t.columns[i] : i \in {i \in 1..Len(t.columns) : t.columns[i].isFilterColumn}}

\* a row without the fields of the filter columns
DataOf(t, row) ==
    LET slugs == {c.slug : c \in FilterSpecs(t)}
    IN [f \in (DOMAIN row) \ slugs |-> row[f]]

\* the rows of a list without the fields of the filter columns
DataOfRows(t, rows) == [i \in 1..Len(rows) |-> DataOf(t, rows[i])]

\* the table with its filter columns removed and the filter column c
\* registered alone
WithFilterAlone(t, c) ==
    LET plain == SelectSeq(t.columns, LAMBDA col : ~col.isFilterColumn)
    IN AddFilterColumn(NewTable(DataOfRows(t, t.rows), plain), c.slug, c.fn)

\* C6: unfilteredRows is, in row-store order, the rows for which the
\* predicate of every registered filter column is true; with two filter
\* columns these are the rows that each filter registered alone lets
\* through; with no filter column it is the row store
C6_UnfilteredRowsAreTheRowsPassingEveryFilter ==
    LET filters == FilterSpecs(table)
        visible == DataOfRows(table, UnfilteredRows(table))
        data == DataOfRows(table, table.rows)
    IN /\ visible = SelectSeq(data, LAMBDA row : \A c \in filters : ApplyFn(c.fn, row))
       /\ Cardinality(filters) = 2 =>
              visible = SelectSeq(data, LAMBDA row :
                            \A c \in filters :
                                row \in Range(DataOfRows(table, UnfilteredRows(WithFilterAlone(table, c)))))
       /\ filters = {} => UnfilteredRows(table) = table.rows

\* a table with two filter columns, each hiding a row the other lets through,
\* and a row that passes both
C6_Witness ==
    LET filters == FilterSpecs(table)
        data == DataOfRows(table, table.rows)
    IN /\ Cardinality(filters) = 2
       /\ \A c \in filters :
             \E i \in 1..Len(data) :
                 /\ ~ApplyFn(c.fn, data[i])
                 /\ \A d \in filters \ {c} : ApplyFn(d.fn, data[i])
       /\ Len(UnfilteredRows(table)) > 0

\* C7: after deleteColumnBySlug(slug) on a table with a column registered
\* under slug, the registry has no entry for slug, the column filters no
\* more, and no row has a field slug
C7_DeleteColumnBySlugUnregistersTheColumn ==
    [][\A slug \in FilterSlugs :
          (/\ lastOp' = "deleteColumnBySlug"
           /\ ColumnsHas(table.columns, slug)
           /\ \E i \in 1..Len(table.rows) : Has(table.rows[i], slug)
           /\ \A i \in 1..Len(table'.rows) : ~Has(table'.rows[i], slug))
          => (/\ ~ColumnsHas(table'.columns, slug)
              /\ \A i \in 1..Len(FilterColumnSlugs(table')) : FilterColumnSlugs(table')[i] # slug)]_vars

(***************************************************************************)
(* Properties of the population filter (PopSpec).                          *)
(***************************************************************************)
\* the entity of the row has no known population or one of at least minPop
PopulationAtLeast(row, minPop) ==
    \/ row["entityName"] \notin DOMAIN PopulationMap
    \/ PopulationMap[row["entityName"]] >= minPop

\* C8: once data has been received, the visible rows are the rows whose
\* entity has no known population or a population of at least the current
\* minPopulationFilter, and all rows when minPopulationFilter is unset
C8_VisibleRowsFollowMinPopulationFilter ==
    Len(table.rows) > 0 =>
        LET visible == DataOfRows(table, UnfilteredRows(table))
            data == DataOfRows(table, table.rows)
        IN IF minPopulationFilter = 0
           THEN visible = data
           ELSE visible = SelectSeq(data, LAMBDA row : PopulationAtLeast(row, minPopulationFilter))

(***************************************************************************)
(* Properties of the fetch of data (Spec).                                 *)
(***************************************************************************)
RECURSIVE DistinctInOrder(_)
\* the elements of a sequence, each at its first occurrence
DistinctInOrder(s) ==
    IF s = <<>> THEN <<>>
    ELSE LET front == DistinctInOrder(SubSeq(s, 1, Len(s) - 1))
         IN IF s[Len(s)] \in Range(front) THEN front ELSE Append(front, s[Len(s)])

\* the distinct variable ids of a dimension list, in order of first occurrence
DistinctVariableIds(dims) == DistinctInOrder([i \in 1..Len(dims) |-> dims[i].variableId])

\* C9: downloadData is invoked once at construction and then once for each
\* change of the value of the distinct variable-id list: the log of its
\* invocations is never empty, no two consecutive invocations saw the same
\* value, and the last one saw the current value
C9_OneInvocationPerChangeOfVariableIds ==
    /\ Len(fetchLog) >= 1
    /\ \A i \in 1..(Len(fetchLog) - 1) : fetchLog[i] # fetchLog[i + 1]
    /\ fetchLog[Len(fetchLog)] = DistinctVariableIds(dimensions)

\* the dimension list was edited so that the variable ids changed and
\* changed back, each change with its invocation
C9_Witness ==
    /\ lastOp = "setDimensions"
    /\ Len(fetchLog) = 3
    /\ fetchLog[1] = fetchLog[3]
    /\ fetchLog[1] # <<>>

\* a step in which downloadData requests data: it is invoked in the client
\* with a list of variable ids that is not empty
FetchTriggered ==
    /\ ~isNode
    /\ \E i \in (Len(fetchLog) + 1)..Len(fetchLog') : fetchLog'[i] # <<>>

\* C10 as stated: an edit of the selection triggers no fetch, and an
\* assignment of a dimension list triggers none when the set of distinct
\* variable ids is the same before the edit, for the list assigned and for
\* the list persisted after it
C10_AsStated ==
    [][/\ lastOp' = "setSelectedKeys" => ~FetchTriggered
       /\ \A dims \in DimensionLists :
             (/\ lastOp' = "setDimensions"
              /\ Range(DistinctVariableIds(dims)) = Range(DistinctVariableIds(dimensions))
              /\ Range(DistinctVariableIds(dimensions')) = Range(DistinctVariableIds(dimensions))
              /\ SetDimensions(dims))
             => ~FetchTriggered]_vars

\* C10 (amended): an edit of the selection triggers no fetch, and an
\* assignment of a dimension list triggers none when the list of distinct
\* variable ids in order of first occurrence is the same before the edit, for
\* the list assigned and for the list persisted after it: downloadData is
\* not invoked and no request is added
C10_NoFetchWhileOrderedVariableIdsUnchanged ==
    [][/\ lastOp' = "setSelectedKeys" => (fetchLog' = fetchLog /\ pending' = pending)
       /\ \A dims \in DimensionLists :
             (/\ lastOp' = "setDimensions"
              /\ DistinctVariableIds(dims) = DistinctVariableIds(dimensions)
              /\ DistinctVariableIds(dimensions') = DistinctVariableIds(dimensions)
              /\ SetDimensions(dims))
             => (fetchLog' = fetchLog /\ pending' = pending)]_vars

\* a display override of the only dimension was edited after construction
\* and downloadData has run only at construction
C10_Witness ==
    /\ ~isNode
    /\ lastOp = "setDimensions"
    /\ dimensions = <<DimY5Unit>>
    /\ fetchLog = <<<<5>>>>

RaisedUnknownKey == [error |-> "Unknown data key", selectedData |-> selectedData]

\* C12: in every state, lookupKey raises for the keys that are not in the key
\* index; on a ready chart the assignment to selectedKeys of any list that
\* holds such a key, and in any state setKeyColor with such a key, raise
\* 'Unknown data key' and leave the persisted selection list as it is
C12_UnknownKeyRaisesAndWritesNothing ==
    LET isReady == IsReady
        entityDimensionMap == EntityDimensionMap
        entityNameToIdMap == EntityNameToIdMap(table)
        selectionData == SelectionData
        unknown == KeyUniverse \ AvailableKeys
    IN /\ \A key \in unknown : LookupKeyRaises(entityDimensionMap, key)
       /\ \A keys \in KeyLists :
             (isReady /\ Range(keys) \cap unknown # {})
                 => SelectedKeysSetterWith(isReady, entityDimensionMap, entityNameToIdMap,
                                           selectionData, selectedData, keys) = RaisedUnknownKey
       /\ \A key \in unknown, color \in Colors :
             SetKeyColorWith(entityDimensionMap, selectedData, key, color) = RaisedUnknownKey

\* on a ready chart with a selection, a list holding a key of the key index
\* and a key that is not in it was assigned to selectedKeys
C12_Witness ==
    /\ lastOp = "setSelectedKeys"
    /\ error = "Unknown data key"
    /\ IsReady
    /\ "B_0" \in AvailableKeys
    /\ "B_1" \notin AvailableKeys
    /\ selectedData # <<>>

(***************************************************************************)
(* C13, C14: the selection of a "change entity" chart.                     *)
(***************************************************************************)
\* C13: in change-country mode reading selectedEntities raises nothing and
\* gives at most one entity, and every key of selectedKeys stands for a pair
\* of that one entity, whatever the persisted list holds
C13_ChangeCountrySelectsOneEntity ==
    addCountryMode = "change-country" =>
        LET keys == SelectedKeys
        IN /\ ~SelectedEntitiesRaises
           /\ Len(SelectedEntities) <= 1
           /\ Cardinality({KeyPair[keys[i]][1] : i \in 1..Len(keys)}) <= 1

\* a change-country chart whose persisted list names two entities that both
\* have data, after the mode was set
C13_Witness ==
    /\ addCountryMode = "change-country"
    /\ lastOp = "setAddCountryMode"
    /\ Cardinality({e.entityId : e \in {e \in Range(selectedData) : EntryAddressesData(e)}}) = 2
    /\ Len(SelectedEntities) = 1

\* the positions of the entries of L that address data
ValidPositions(L) == {i \in 1..Len(L) : EntryAddressesData(L[i])}

\* C14: in change-country mode, when the persisted list holds a valid entry,
\* selectedKeys is not empty and holds exactly the keys of the valid entries
\* whose entity is that of the last valid entry of the list
C14_ChangeCountryCollapsesToLastValidEntry ==
    (addCountryMode = "change-country" /\ ValidPositions(selectedData) # {}) =>
        LET valid == ValidPositions(selectedData)
            last == CHOOSE i \in valid : \A j \in valid : j <= i
            keys == SelectedKeys
        IN /\ keys # <<>>
           /\ Range(keys) = {EntryKey(selectedData[i]) :
                                i \in {i \in valid : selectedData[i].entityId =
                                                         selectedData[last].entityId}}

(***************************************************************************)
(* C15: makeEntityDimensionKey.                                            *)
(***************************************************************************)
\* C15: the key made for (entityName, dimensionIndex) is the name, an
\* underscore and the index; making it again gives the same key, and no
\* other pair of an entity name and a dimension index gives that key
C15_MakeEntityDimensionKeyIsInjective ==
    lastOp = "makeEntityDimensionKey" =>
        /\ result = args[1] \o "_" \o ToString(args[2])
        /\ MakeEntityDimensionKey(args[1], args[2]) = result
        /\ \A entityName \in KeyEntityNames, dimensionIndex \in KeyDimensionIndexes :
              MakeEntityDimensionKey(entityName, dimensionIndex) = result
                  => <<entityName, dimensionIndex>> = args

\* a key was made for a name that holds an underscore and a digit, of which
\* a prefix is a name too
C15_Witness ==
    /\ lastOp = "makeEntityDimensionKey"
    /\ args = <<"A_1", 0>>
    /\ result = "A_1_0"

(***************************************************************************)
(* C16, C17: the key index.                                                *)
(***************************************************************************)
\* the pairs <<entityId, i>> of a position i (from 0) among the y-dimensions
\* and an entity with a value in that dimension's column in a visible row
PairsWithData ==
    LET prim == PrimaryDimensions
    IN {p \in EntityIds \X (0..(Len(prim) - 1)) : HasDataIn(prim[p[2] + 1].column, p[1])}

\* C16: on a ready chart the keys of entityDimensionMap are, one for one, the
\* pairs of a position among the y-dimensions and an entity with a value in
\* that dimension's column in a visible row; the entry of a pair holds the
\* entity's name, its entityId and the position
C16_KeyIndexIsThePairsWithData ==
    IsReady =>
        LET entityDimensionMap == EntityDimensionMap
            pairs == PairsWithData
        IN /\ DOMAIN entityDimensionMap = {PairKey[p] : p \in pairs}
           /\ Cardinality(DOMAIN entityDimensionMap) = Cardinality(pairs)
           /\ \A p \in pairs :
                 /\ entityDimensionMap[PairKey[p]].entity = EntityKey[p[1]].name
                 /\ entityDimensionMap[PairKey[p]].entityId = p[1]
                 /\ entityDimensionMap[PairKey[p]].index = p[2]

\* a ready chart with two y-dimensions whose population filter hides the rows
\* of entity A: the key index holds B for the first dimension, B and C for
\* the second
C16_Witness ==
    /\ IsReady
    /\ lastOp = "setSelectedKeys"
    /\ dimensions = <<DimY5, DimY2>>
    /\ minPopulationFilter = 5
    /\ AvailableKeys = {"B_0", "B_1", "C_1"}

\* the label the precedence gives an entry when oneVariable tells whether the
\* first rule applies
LabelByPrecedence(info, oneVariable) ==
    IF oneVariable THEN info.entity
    ELSE IF IsSingleEntity THEN DisplayName(info.dimension)
    ELSE info.entity \o " - " \o DisplayName(info.dimension)

\* C17 as stated: the label of every entry is the entity name when exactly
\* one variable is configured across all dimensions, else the dimension's
\* display name on a single-entity chart, else both
C17_AsStated ==
    LET entityDimensionMap == EntityDimensionMap
        oneVariable == Cardinality({dimensions[i].variableId : i \in 1..Len(dimensions)}) = 1
    IN \A key \in DOMAIN entityDimensionMap :
          entityDimensionMap[key].label = LabelByPrecedence(entityDimensionMap[key], oneVariable)

\* C17 (amended): the label of every entry is the entity name when exactly
\* one y-dimension is configured, else the dimension's display name on a
\* single-entity chart, else the entity name and the display name combined
C17_LabelFollowsPrecedenceOnYDimensions ==
    LET entityDimensionMap == EntityDimensionMap
        oneY == Cardinality({i \in 1..Len(dimensions) : dimensions[i].property = "y"}) = 1
    IN \A key \in DOMAIN entityDimensionMap :
          entityDimensionMap[key].label = LabelByPrecedence(entityDimensionMap[key], oneY)

\* a chart with one y-dimension and an x-dimension on another variable, put
\* in change-country mode: the label is the entity name
C17_Witness ==
    /\ IsReady
    /\ lastOp = "setAddCountryMode"
    /\ addCountryMode = "change-country"
    /\ dimensions = <<DimY5, DimX2>>
    /\ "A_0" \in AvailableKeys
    /\ EntityDimensionMap["A_0"].label = "A"

(***************************************************************************)
(* C18, C19, C20: ingestion (LegacySpec).                                  *)
(***************************************************************************)
\* the observations of the variables ids: <<variable id, position>>
Observations(ids) ==
    {o \in ids \X (1..3) : o[2] <= Len(OwidVariables[o[1]].values)}

\* the slug of the value column of variable id
ValueSlug(id) == ToString(id) \o "-" \o OwidVariables[id].slugName

\* the time kind of an observation
TimeKind(o) == IF OwidVariables[o[1]].yearIsDay THEN "day" ELSE "year"

\* the number of days from the table epoch to the zeroDay a daily variable
\* declares, 0 for a variable that declares none and for a year-based one
EpochOffset(id) ==
    IF OwidVariables[id].yearIsDay /\ OwidVariables[id].zeroDay # {}
    THEN (CHOOSE d \in OwidVariables[id].zeroDay : TRUE) - EpochDate
    ELSE 0

\* the time value ingestion emits for an observation
EmittedTime(o) == OwidVariables[o[1]].years[o[2]] + EpochOffset(o[1])

\* the entity of an observation
ObservedEntity(o) == OwidVariables[o[1]].entities[o[2]]

\* <<time kind, time value, entity name>> of an observation
ObservationTriple(o) == <<TimeKind(o), EmittedTime(o), EntityKey[ObservedEntity(o)].name>>

\* <<time kind, time value, entity name>> of a row that has a time field
RowTriple(row) ==
    IF Has(row, "year") THEN <<"year", row["year"], row["entityName"]>>
    ELSE <<"day", row["day"], row["entityName"]>>

\* the positions of the rows of the table that stand for a triple
RowsOf(triple) ==
    {r \in 1..Len(table.rows) :
        (Has(table.rows[r], "year") \/ Has(table.rows[r], "day")) /\ RowTriple(table.rows[r]) = triple}

\* C18: the table fromLegacy builds has exactly one row for each distinct
\* (time kind, emitted time value, entity name) of the observations of the
\* variables and no other row; the row holds the value of every variable
\* observed for that entity at that time and of no other variable, the
\* entity's name, id and code, and exactly one of the fields year and day
C18_OneRowPerTimeAndEntity ==
    lastOp = "receiveJson" =>
        LET obs == Observations(args)
        IN /\ \A o \in obs :
                 /\ Cardinality(RowsOf(ObservationTriple(o))) = 1
                 /\ \A r \in RowsOf(ObservationTriple(o)) :
                       /\ Has(table.rows[r], ValueSlug(o[1]))
                       /\ table.rows[r][ValueSlug(o[1])] = OwidVariables[o[1]].values[o[2]]
                       /\ table.rows[r]["entityId"] = ObservedEntity(o)
                       /\ table.rows[r]["entityCode"] = EntityKey[ObservedEntity(o)].code
           /\ \A r \in 1..Len(table.rows) :
                 /\ Has(table.rows[r], "year") # Has(table.rows[r], "day")
                 /\ RowTriple(table.rows[r]) \in {ObservationTriple(o) : o \in obs}
                 /\ \A id \in VarIds :
                       Has(table.rows[r], ValueSlug(id)) =>
                           \E o \in obs : o[1] = id /\ ObservationTriple(o) = RowTriple(table.rows[r])

\* the data of year-based and of daily variables was ingested together, two
\* variables observing entity B in the year 2000 and two observing entity A
\* on the same day: each pair shares a row
C18_Witness ==
    /\ lastOp = "receiveJson"
    /\ args = {2, 5, 7, 8}
    /\ \E r \in 1..Len(table.rows) :
          Has(table.rows[r], "7-cases") /\ Has(table.rows[r], "8-tests")
    /\ \E r \in 1..Len(table.rows) :
          Has(table.rows[r], "2-pop") /\ Has(table.rows[r], "5-gdp")

\* the real date of an observation of a daily variable that declares a
\* zeroDay, as a day number
RealDate(o) == (CHOOSE d \in OwidVariables[o[1]].zeroDay : TRUE) + OwidVariables[o[1]].years[o[2]]

\* the daily variables that declare a zeroDay
WithZeroDay(ids) == {id \in ids : OwidVariables[id].yearIsDay /\ OwidVariables[id].zeroDay # {}}

\* the time value of the row that holds the value of an observation
TimeOfValue(o) ==
    {table.rows[r][TimeKind(o)] :
        r \in {r \in 1..Len(table.rows) :
                  /\ Has(table.rows[r], ValueSlug(o[1]))
                  /\ Has(table.rows[r], TimeKind(o))
                  /\ table.rows[r]["entityId"] = ObservedEntity(o)
                  /\ table.rows[r][ValueSlug(o[1])] = OwidVariables[o[1]].values[o[2]]}}

\* C19: the value of an observation of a daily variable that declares a
\* zeroDay D other than the epoch E is emitted at day raw + (D - E); two
\* observations of daily variables with declared zeroDays for the same
\* entity on the same real date are in one row; a daily variable whose
\* zeroDay is E or undeclared and a year-based variable keep their raw times
C19_DaysAreNormalisedToTheEpoch ==
    lastOp = "receiveJson" =>
        LET obs == Observations(args)
        IN /\ \A o \in obs :
                 TimeOfValue(o) =
                     {IF /\ o[1] \in WithZeroDay(args)
                         /\ OwidVariables[o[1]].zeroDay # {EpochDate}
                      THEN OwidVariables[o[1]].years[o[2]]
                               + ((CHOOSE d \in OwidVariables[o[1]].zeroDay : TRUE) - EpochDate)
                      ELSE OwidVariables[o[1]].years[o[2]]}
           /\ \A o1, o2 \in {o \in obs : o[1] \in WithZeroDay(args)} :
                 (ObservedEntity(o1) = ObservedEntity(o2) /\ RealDate(o1) = RealDate(o2)) =>
                     \E r \in 1..Len(table.rows) :
                         /\ Has(table.rows[r], ValueSlug(o1[1]))
                         /\ Has(table.rows[r], ValueSlug(o2[1]))
                         /\ table.rows[r]["entityId"] = ObservedEntity(o1)
                         /\ table.rows[r][ValueSlug(o1[1])] = OwidVariables[o1[1]].values[o1[2]]
                         /\ table.rows[r][ValueSlug(o2[1])] = OwidVariables[o2[1]].values[o2[2]]

\* two daily variables whose zeroDays lie 15 days apart were ingested: their
\* observations of entity A on the same real date are in one row, at the day
\* counted from the epoch
C19_Witness ==
    /\ lastOp = "receiveJson"
    /\ {8, 9} \subseteq args
    /\ \E r \in 1..Len(table.rows) :
          /\ Has(table.rows[r], "8-tests")
          /\ Has(table.rows[r], "9-deaths")
          /\ table.rows[r]["day"] = 13
          /\ table.rows[r]["8-tests"] = 80
          /\ table.rows[r]["9-deaths"] = 90

\* the slugs of the columns the table registers
RegisteredSlugs == {table.columns[i].slug : i \in 1..Len(table.columns)}

\* C20: the table fromLegacy builds registers, each once, the columns
\* entityName, entityId and entityCode, the column year or day of each time
\* kind a variable uses, the value column of each variable and the
\* annotations column of each variable that has annotations, and no other
\* column; without variables it has no rows and the three identity columns
C20_RegisteredColumns ==
    lastOp = "receiveJson" =>
        /\ RegisteredSlugs =
              {"entityName", "entityId", "entityCode"}
                  \cup {IF OwidVariables[id].yearIsDay THEN "day" ELSE "year" : id \in args}
                  \cup {ValueSlug(id) : id \in args}
                  \cup {ValueSlug(id) \o "-annotations" :
                           id \in {id \in args : OwidVariables[id].annotations # <<>>}}
        /\ Cardinality(RegisteredSlugs) = Len(table.columns)
        /\ args = {} => (table.rows = <<>> /\ Len(table.columns) = 3)

\* a year-based variable with annotations and a daily variable without were
\* ingested
C20_Witness ==
    /\ lastOp = "receiveJson"
    /\ args = {4, 7}
    /\ "4-tax-annotations" \in RegisteredSlugs
    /\ "7-cases-annotations" \notin RegisteredSlugs
    /\ {"year", "day"} \subseteq RegisteredSlugs

(***************************************************************************)
(* Properties of the smoothing (SmoothSpec).                               *)
(***************************************************************************)
\* the positions lo..hi of numbers that hold a number
NumericIn(numbers, lo, hi) == {k \in lo..hi : k \in DOMAIN numbers /\ numbers[k].tag = "number"}

\* v is the arithmetic mean of the integers numbers[k], k in idx
IsMeanOf(v, numbers, idx) ==
    /\ v.tag = "number"
    /\ v.den > 0
    /\ v.num * Cardinality(idx) = SumAt(numbers, idx) * v.den

\* C21: with alignment "right", at every position i that holds a number
\* computeRollingAverage returns the arithmetic mean of the numbers at the
\* positions max(0, i - window + 1) .. i of the input; window size 1 returns
\* the input, and [1, -1, 1, -1] with window 2 gives [1, 0, 0, 0]
C21_RightAlignedMean ==
    (lastOp = "computeRollingAverage" /\ args.align = "right") =>
        /\ DOMAIN result = DOMAIN args.numbers
        /\ \A i \in DOMAIN args.numbers :
               args.numbers[i].tag = "number" =>
                   /\ IsMeanOf(result[i], args.numbers,
                               NumericIn(args.numbers, i - args.windowSize + 1, i))
                   /\ result[i].num % result[i].den = 0 => result[i].den = 1
        /\ args.windowSize = 1 => result = args.numbers
        /\ (args.numbers = <<Num(1), Num(-1), Num(1), Num(-1)>> /\ args.windowSize = 2) =>
               result = <<Num(1), Num(0), Num(0), Num(0)>>

C21_Witness ==
    /\ lastOp = "computeRollingAverage"
    /\ args.align = "right"
    /\ args.windowSize = 2
    /\ args.numbers = <<Num(1), Num(-1), Num(1), Num(-1)>>
    /\ result = <<Num(1), Num(0), Num(0), Num(0)>>

C23_OnePlaceholderPerSkippedTime ==
    (lastOp = "insertMissingValuePlaceholders" /\ args.years # <<>>) =>
        LET first == args.years[1]
            last == args.years[Len(args.years)]
        IN /\ Len(result) = last - first + 1
           /\ \A k \in 1..Len(args.years) : result[args.years[k] - first + 1] = args.numbers[k]
           /\ \A time \in first..last :
                  time \notin Range(args.years) => result[time - first + 1] = Null
           /\ (args.numbers = <<Num(2), Num(-3), Num(10)>> /\ args.years = <<0, 2, 3>>) =>
                  result = <<Num(2), Null, Num(-3), Num(10)>>

C23_Witness ==
    /\ lastOp = "insertMissingValuePlaceholders"
    /\ args.numbers = <<Num(2), Num(-3), Num(10)>>
    /\ args.years = <<0, 2, 3>>
    /\ result = <<Num(2), Null, Num(-3), Num(10)>>

\* C24: after addRollingAverageColumn on rows sorted by the grouping column
\* every row, the rows of the last group included, has in the new column the
\* rolling average of its group: the mean of the values its group has in
\* the window that ends at the row's day
C24_EveryRowHasItsGroupAverage ==
    lastOp = "addRollingAverageColumn" =>
        LET rows == table.rows
            values == [k \in 1..Len(rows) |-> Num(rows[k]["7-cases"])]
        IN \A i \in 1..Len(rows) :
               LET peers == {k \in 1..Len(rows) :
                                /\ rows[k]["entityName"] = rows[i]["entityName"]
                                /\ rows[k]["day"] \in (rows[i]["day"] - args.windowSize + 1)..rows[i]["day"]}
               IN /\ Has(rows[i], "cases_avg")
                  /\ IsMeanOf(rows[i]["cases_avg"], values, peers)

\* C24 for the rows of every group but the last
C24_GroupsBeforeTheLast ==
    lastOp = "addRollingAverageColumn" =>
        LET rows == table.rows
            values == [k \in 1..Len(rows) |-> Num(rows[k]["7-cases"])]
        IN \A i \in 1..Len(rows) :
               LET peers == {k \in 1..Len(rows) :
                                /\ rows[k]["entityName"] = rows[i]["entityName"]
                                /\ rows[k]["day"] \in (rows[i]["day"] - args.windowSize + 1)..rows[i]["day"]}
               IN IF rows[i]["entityName"] # rows[Len(rows)]["entityName"]
                  THEN /\ Has(rows[i], "cases_avg")
                       /\ IsMeanOf(rows[i]["cases_avg"], values, peers)
                  ELSE ~Has(rows[i], "cases_avg")

(***************************************************************************)
(* Properties of the table's views (ViewSpec).                             *)
(***************************************************************************)
\* C25: after any mutation made through the table's operations, the next
\* read of unfilteredRows and of the values, entityNames, years and
\* entityMap of every registered column returns what a fresh computation
\* over the current rows and registry returns
C25_ReadsAreNeverStale ==
    lastOp = "read" =>
        /\ ElementsAt(table.rows, OrElse(result.unfilteredRows, <<>>)) = UnfilteredRows(table)
        /\ \A slug \in ColumnSlugs(table) :
               result.views[slug] = ColumnView(UnfilteredRows(table), slug)

\* C30: addComputedColumn(spec) registers the column and sets the field
\* spec.slug of every row present to fn(row, index); rows appended afterwards
\* with addRowsAndDetectColumns are stored as they were passed, without a
\* value for that slug, and the column's values stay those of the rows that
\* were there at registration
C30_ComputedColumnIsASnapshot ==
    [][/\ lastOp' = "addComputedColumn" =>
            LET spec == args'[1]
            IN /\ ColumnsHas(table'.columns, spec.slug)
               /\ ColumnsGet(table'.columns, spec.slug) = spec
               /\ Len(table'.rows) = Len(table.rows)
               /\ \A i \in 1..Len(table.rows) :
                      table'.rows[i] =
                          SetField(table.rows[i], spec.slug,
                                   10 * table.rows[i]["entityId"] + (i - 1) + spec.fn.n)
       /\ (lastOp' = "addRowsAndDetectColumns" /\ ColumnsHas(table.columns, "c1")) =>
            /\ table'.rows = Append(table.rows, args'[1])
            /\ ~Has(table'.rows[Len(table'.rows)], "c1")
            /\ ColumnView(UnfilteredRows(table'), "c1").values
                   = ColumnView(UnfilteredRows(table), "c1").values
      ]_vars

\* a row was appended to a table whose rows have their computed value
C30_Witness ==
    /\ lastOp = "addRowsAndDetectColumns"
    /\ ColumnsHas(table.columns, "c1")
    /\ Len(table.rows) = 4
    /\ \A i \in 1..3 : Has(table.rows[i], "c1") /\ table.rows[i]["c1"] = 10 * table.rows[i]["entityId"] + i - 1
    /\ ~Has(table.rows[4], "c1")
    /\ Len(ColumnView(UnfilteredRows(table), "c1").values) = 3

(***************************************************************************)
(* Properties of the reads (TableSpec).                                    *)
(***************************************************************************)
\* C26 as stated: a read of a derived value leaves the configuration fields,
\* the column registry and the fields of every row as they were
C26_AsStated ==
    [][lastOp' = "read" =>
          /\ dimensions' = dimensions
          /\ selectedData' = selectedData
          /\ minPopulationFilter' = minPopulationFilter
          /\ table'.columns = table.columns
          /\ table'.rows = table.rows]_vars

\* C26: a read of a derived value leaves the configuration fields and the
\* column registry as they were, removes no row and changes no field a row
\* has; the only fields it adds to a row are results of the predicates of
\* registered filter columns the row had no value for
C26_ReadsOnlyCacheFilterResults ==
    [][lastOp' = "read" =>
          /\ dimensions' = dimensions
          /\ selectedData' = selectedData
          /\ minPopulationFilter' = minPopulationFilter
          /\ table'.columns = table.columns
          /\ Len(table'.rows) = Len(table.rows)
          /\ \A i \in 1..Len(table.rows) :
                 LET before == table.rows[i]
                     after == table'.rows[i]
                 IN /\ \A f \in DOMAIN before : Has(after, f) /\ after[f] = before[f]
                    /\ \A f \in (DOMAIN after) \ (DOMAIN before) :
                           /\ ColumnsHas(table.columns, f)
                           /\ ColumnsGet(table.columns, f).isFilterColumn
                           /\ after[f] = ApplyFn(ColumnsGet(table.columns, f).fn, before)]_vars

\* a read has stored the result of the first filter in a row it rejects and
\* has not evaluated the second filter for it
C26_Witness ==
    /\ lastOp = "read"
    /\ ColumnsHas(table.columns, "f1") /\ ColumnsHas(table.columns, "f2")
    /\ \E i, j \in 1..Len(table.rows) :
           /\ Has(table.rows[i], "f1") /\ table.rows[i]["f1"] = FALSE
           /\ ~Has(table.rows[i], "f2")
           /\ Has(table.rows[j], "f2")

(***************************************************************************)
(* Properties of the export (DelimitedSpec).                               *)
(***************************************************************************)
\* the line of a row: for each registered column, in registration order, the
\* value the row has for the column, "" when it has none
LineOf(t, row) ==
    Join([i \in 1..Len(t.columns) |->
             IF Has(row, t.columns[i].slug) THEN FieldToString(row, t.columns[i].slug) ELSE ""],
         ",")

\* C27: toDelimited returns a header line with the registered columns in
\* registration order, followed by one line per row, each holding column by
\* column the row's value for that column and an empty string where the row
\* has no value for the column
C27_AsStated ==
    lastOp = "toDelimited" =>
        result = Join([i \in 1..Len(table.columns) |-> ColumnName(table.columns[i])], ",")
                 \o "\n"
                 \o Join([r \in 1..Len(table.rows) |-> LineOf(table, table.rows[r])], "\n")

\* what holds of the code: the cells of the columns whose name is not their
\* slug are empty
C27_CellsAreReadByName ==
    lastOp = "toDelimited" =>
        LET named == [i \in 1..Len(table.columns) |->
                         [table.columns[i] EXCEPT !.slug = ColumnName(table.columns[i])]]
        IN result = Join([i \in 1..Len(table.columns) |-> ColumnName(table.columns[i])], ",")
                    \o "\n"
                    \o Join([r \in 1..Len(table.rows) |->
                                LineOf([table EXCEPT !.columns = named], table.rows[r])], "\n")

(***************************************************************************)
(* Properties of the available entities (KeySpec).                         *)
(***************************************************************************)
\* C28: availableEntities holds every entity name that has data in the
\* column of a configured x or y dimension, and nothing else; it is empty
\* while the chart is not ready
C28_EntitiesOfTheAxisDimensions ==
    LET axis == AxisDimensions
    IN AvailableEntities =
           IF IsReady
           THEN UNION {Range(EntityNamesUniq(table, axis[a].column)) : a \in 1..Len(axis)}
           ELSE {}

\* what holds of the code: the entities of the y dimensions, and of the x
\* dimensions on the variable of a y dimension
C28_EntitiesOfThePrimaryDimensions ==
    LET prim == PrimaryDimensions
    IN AvailableEntities =
           UNION {Range(EntityNamesUniq(table, prim[k].column)) : k \in 1..Len(prim)}

(***************************************************************************)
(* Properties of the selection while the chart is not ready (ToggleSpec).  *)
(***************************************************************************)
\* C29: while isReady is false an assignment to selectedKeys, toggleKey and
\* selectEntityDimensionKey leave the persisted selection list as it was
\* and raise nothing, whatever the keys
C29_NotReadyWritesNothing ==
    [][(~IsReady /\ lastOp' \in {"setSelectedKeys", "toggleKey", "selectEntityDimensionKey"}) =>
           /\ selectedData' = selectedData
           /\ error' = ""]_vars

\* a key was toggled on a chart that is not ready and has a persisted
\* selection
C29_Witness ==
    /\ ~IsReady
    /\ lastOp = "toggleKey"
    /\ selectedData # <<>>

(***************************************************************************)
(* Properties of the short codes (CodeSpec).                               *)
(***************************************************************************)
\* C31: with more than one primary dimension and not in change-country mode
\* the shortCode of an entry is the entity's code (its name when it has no
\* code) followed by the index of the entry's dimension, so the entries of
\* one entity in different primary dimensions have different shortCodes;
\* in every other case the shortCode is the code (or name) alone
C31_ShortCodes ==
    lastOp = "entityDimensionMap" =>
        LET many == /\ Len(PrimaryDimensionsOf(table, args.dims)) > 1
                    /\ args.mode # "change-country"
            base(e) == IF args.nameToCode[e.entity] = "" THEN e.entity
                       ELSE args.nameToCode[e.entity]
        IN /\ \A key \in DOMAIN result :
                  result[key].shortCode =
                      IF many THEN base(result[key]) \o "-" \o ToString(result[key].dimension.index)
                      ELSE base(result[key])
           /\ many => \A k1, k2 \in DOMAIN result :
                          (result[k1].entity = result[k2].entity /\ k1 # k2) =>
                              result[k1].shortCode # result[k2].shortCode

\* the key index of a chart with two primary dimensions was computed for an
\* entity without a code
C31_Witness ==
    /\ lastOp = "entityDimensionMap"
    /\ args.dims = <<DimX5, DimY2, DimY5>>
    /\ args.mode = "add-country"
    /\ args.nameToCode["B"] = ""
    /\ "B_0" \in DOMAIN result /\ result["B_0"].shortCode = "B-1"
    /\ "B_1" \in DOMAIN result /\ result["B_1"].shortCode = "B-2"

(***************************************************************************)
(* Properties of the colors (KeySpec).                                     *)
(***************************************************************************)
\* C32: setKeyColor(key, color) for a key of the key index replaces the
\* persisted selection list by a list of the same length and order in which
\* exactly the entries with the key's (entityId, index) have the given color
\* and every other entry and field is as before; nothing else is written
C32_SetKeyColorWritesTheEntriesOfTheKey ==
    [][(lastOp' = "setKeyColor" /\ error' = "") =>
          /\ \E key \in AvailableKeys, color \in Colors :
                 LET meta == EntityDimensionMap[key]
                     hit(i) == /\ selectedData[i].entityId = meta.entityId
                               /\ selectedData[i].index = meta.index
                 IN /\ Len(selectedData') = Len(selectedData)
                    /\ \A i \in 1..Len(selectedData) :
                           /\ selectedData'[i].entityId = selectedData[i].entityId
                           /\ selectedData'[i].index = selectedData[i].index
                           /\ selectedData'[i].color =
                                  IF hit(i) THEN color ELSE selectedData[i].color
          /\ UNCHANGED <<isNode, type, dimensions, addCountryMode, minPopulationFilter,
                         table, variableIdsValue, fetchLog, pending, args, result>>]_vars

\* a color was set on one of two entries of the same entity
C32_Witness ==
    /\ lastOp = "setKeyColor"
    /\ error = ""
    /\ Len(selectedData) = 2
    /\ selectedData[1].entityId = selectedData[2].entityId
    /\ selectedData[1].index # selectedData[2].index
    /\ selectedData[1].color = "red"
    /\ selectedData[2].color = NoColor

\* the selected keys after selectedKeys = keys is run on the current state
SelectedKeysAfter(keys) == SelectedKeysOf(SelectedKeysSetter(selectedData, keys).selectedData)

\* key is selected and every selected key is of the entity of key
EvictsOthers(selectedKeys, key) ==
    /\ key \in Range(selectedKeys)
    /\ \A i \in 1..Len(selectedKeys) :
           EntityDimensionMap[selectedKeys[i]].entityId = EntityDimensionMap[key].entityId

\* C33: in change-country mode on a ready chart, after
\* selectEntityDimensionKey(k), or toggleKey(k) for an unselected k, with k
\* a key of the key index, k is selected and no key of another entity is
\* selected.
C33_NewSelectionEvictsOlderOnes ==
    (IsReady /\ AddCountryMode = "change-country") =>
        \A key \in AvailableKeys :
            /\ EvictsOthers(SelectedKeysAfter(SelectedKeys \o <<key>>), key)
            /\ key \notin Range(SelectedKeys) =>
                   EvictsOthers(SelectedKeysAfter(ToggledKeys(SelectedKeys, key)), key)

C33_Witness ==
    /\ IsReady
    /\ AddCountryMode = "change-country"
    /\ lastOp \in {"toggleKey", "selectEntityDimensionKey"}
    /\ error = ""
    /\ \E i \in 1..Len(selectedData) :
           selectedData[i].entityId # selectedData[Len(selectedData)].entityId
    /\ Len(SelectedKeys) = 1

(***************************************************************************)
(* C34: responses that arrive out of order.                                *)
(***************************************************************************)
\* C34: when the variable ids changed while a request for an earlier list
\* was in flight, the step that completes the last request in flight, every
\* request having resolved, leaves the table holding the data of the
\* variable ids now configured and isReady true: the response for an
\* outdated list does not replace the data of the current one
C34_LateResponseKeepsCurrentData ==
    [][(/\ \E ids \in pending : ids # variableIdsValue
        /\ variableIdsValue # <<>>
        /\ pending' = {})
       => /\ \A id \in Range(VariableIds(dimensions')) :
                 \E i \in 1..Len(table'.columns) : table'.columns[i].owidVariableId = Some(id)
          /\ IsReadyOf(table', dimensions')]_vars

(***************************************************************************)
(* C35: the selected keys are keys of the key index.                       *)
(***************************************************************************)
\* C35: in every reachable state every key of selectedKeys is a key of
\* availableKeys, so that lookupKey raises for none of them and reading
\* selectedEntities and selectedEntityCodes raises nothing
C35_SelectedKeysAreAvailable ==
    /\ Range(SelectedKeys) \subseteq AvailableKeys
    /\ \A i \in 1..Len(SelectedKeys) : ~LookupKeyRaises(EntityDimensionMap, SelectedKeys[i])
    /\ ~SelectedEntitiesRaises

\* keys are selected on a chart whose persisted list holds an entry that is
\* not valid, after the population filter was changed
C35_Witness ==
    /\ lastOp = "setMinPopulationFilter"
    /\ minPopulationFilter > 0
    /\ Len(SelectedKeys) > 0
    /\ Len(SelectedKeys) < Len(selectedData)

(***************************************************************************)
(* C36: toggleKey twice.                                                   *)
(***************************************************************************)
\* props.selectedData after toggleKey(key) on a chart whose persisted list
\* is selection
AfterToggleKey(selection, key) ==
    SelectedKeysSetter(selection, ToggledKeys(SelectedKeysOf(selection), key)).selectedData

\* C36: on a ready chart that is not in change-country mode, toggleKey(k)
\* applied twice for a key k of the key index leaves the set of selected
\* keys what it was before the first call, whether k was selected or not
C36_ToggleKeyTwiceKeepsTheSelectedKeys ==
    (IsReady /\ AddCountryMode # "change-country") =>
        \A key \in AvailableKeys :
            Range(SelectedKeysOf(AfterToggleKey(AfterToggleKey(selectedData, key), key)))
                = Range(SelectedKeys)

\* a key was toggled on a ready chart that is not in change-country mode:
\* two keys are selected and toggling the second twice persists the same list
C36_Witness ==
    /\ lastOp = "toggleKey"
    /\ error = ""
    /\ IsReady
    /\ AddCountryMode # "change-country"
    /\ Len(SelectedKeys) = 2
    /\ AfterToggleKey(AfterToggleKey(selectedData, SelectedKeys[2]), SelectedKeys[2]) = selectedData

(***************************************************************************)
(* C37: the persisted dimensions fit the slots of the chart type.          *)
(***************************************************************************)
\* the properties of the slots of a chart type
SlotProperties(chartType) ==
    {DimensionSlots(chartType)[k].property : k \in 1..Len(DimensionSlots(chartType))}

\* the properties of the slots that take one dimension
SingleProperties(chartType) ==
    {DimensionSlots(chartType)[k].property :
        k \in {k \in 1..Len(DimensionSlots(chartType)) : ~DimensionSlots(chartType)[k].allowMultiple}}

\* kept holds only dimensions of the slots of the chart type, at most one
\* for each slot that takes one dimension
FitsSlots(kept, chartType) ==
    /\ \A i \in 1..Len(kept) : kept[i].property \in SlotProperties(chartType)
    /\ \A i, j \in 1..Len(kept) :
           (i # j /\ kept[i].property = kept[j].property)
               => kept[i].property \notin SingleProperties(chartType)

RECURSIVE IsSubsequence(_, _)
\* a is b with some elements left out
IsSubsequence(a, b) ==
    IF a = <<>> THEN TRUE
    ELSE IF b = <<>> THEN FALSE
    ELSE IF Head(a) = Head(b) THEN IsSubsequence(Tail(a), Tail(b))
    ELSE IsSubsequence(a, Tail(b))

\* kept is dims with some dimensions left out, and the dimension it holds
\* for a slot that takes one dimension is the first of dims for that slot
KeepsOrderAndFirst(kept, dims, chartType) ==
    /\ IsSubsequence(kept, dims)
    /\ \A i \in 1..Len(kept) :
           kept[i].property \in SingleProperties(chartType) =>
               LET first == Min({j \in 1..Len(dims) : dims[j].property = kept[i].property})
               IN kept[i] = dims[first]

\* C37: in the client, after a change of the dimension list or of the chart
\* type has settled, the persisted dimensions are dimensions of the slots of
\* the chart type, at most one for each slot that takes one dimension; the
\* dimensions kept keep their order and for such a slot the first is kept
C37_DimensionsFitTheSlots ==
    /\ [](~isNode => FitsSlots(dimensions, type))
    /\ [][~isNode =>
            /\ \A dims \in SlotDimensionLists :
                   SetDimensions(dims) => KeepsOrderAndFirst(dimensions', dims, type')
            /\ lastOp' = "setType" => KeepsOrderAndFirst(dimensions', dimensions, type')]_vars

\* a scatter plot in the client that kept the first y and the first x
\* dimension of a list with two of each
C37_Witness ==
    /\ ~isNode
    /\ type = "ScatterPlot"
    /\ lastOp = "setDimensions"
    /\ dimensions = <<DimX2, DimY5>>

(***************************************************************************)
(* C38: the fields update(json) writes.                                    *)
(***************************************************************************)
\* C38: update(json) changes only the fields that are keys of json: the
\* dimensions, the selection, the "add country" mode, the population filter
\* and the chart type have the value they had before the call when json
\* does not hold them
C38_UpdateWritesOnlyTheKeysOfJson ==
    [][lastOp' = "update" =>
          LET json == args'[1]
          IN /\ "dimensions" \notin DOMAIN json => dimensions' = dimensions
             /\ "selectedData" \notin DOMAIN json => selectedData' = selectedData
             /\ "addCountryMode" \notin DOMAIN json => addCountryMode' = addCountryMode
             /\ "minPopulationFilter" \notin DOMAIN json => minPopulationFilter' = minPopulationFilter
             /\ "type" \notin DOMAIN json => type' = type]_vars

(***************************************************************************)
(* C39: the codes setSelectedEntitiesByCode reports as matched.            *)
(***************************************************************************)
\* C39: after setSelectedEntitiesByCode(codes) on a ready chart, for every
\* code reported as matched a selected key is of an entity whose code, name
\* or shortCode is that code, whether the chart can change entity or not and
\* whether the persisted selection list was empty or not
C39_MatchedCodesAreSelected ==
    (lastOp = "setSelectedEntitiesByCode" /\ IsReady) =>
        \A code \in DOMAIN result :
            result[code] => \E i \in 1..Len(SelectedKeys) : code \in CodesOfKey(SelectedKeys[i])
====
